---- MODULE Spec2Model ----
(***************************************************************************)
(* A model of the VANILLA collection: its JSON API server                  *)
(* (src/vanilla_collection/server.py) with the file-backed ScoreStore and  *)
(* the in-memory sliding-window RateLimiter, the generators behind it, and *)
(* the desktop Tetris and Minesweeper games.                               *)
(*                                                                         *)
(* The module holds these specifications over one set of variables:        *)
(*   SpecStore    - request threads calling ScoreStore.add_score,          *)
(*                  leaderboard and games, step by step;                   *)
(*   SpecFaults   - the same, with the backing file being damaged from     *)
(*                  outside and the process crashing and restarting;       *)
(*   SpecLimiter  - request threads passing through rate_limit.wrapped     *)
(*                  (RateLimiter.is_allowed, get_retry_after) while the    *)
(*                  clock advances;                                        *)
(*   SpecSnake    - backends/snake.py, next_food on a growing snake;       *)
(*   SpecPong     - backends/pong.py, ai_target and its reflection loop;   *)
(*   SpecGenerate - the generation endpoints on a request body;            *)
(*   SpecValidate - validate_score on a value;                             *)
(*   SpecSubmit   - score submissions and leaderboard reads, one request   *)
(*                  after the other;                                       *)
(*   SpecMines    - backends/minesweeper.py, generate_board;               *)
(*   SpecRoutes   - requests going through the rate_limit decorators of    *)
(*                  their route into the route's function;                 *)
(*   SpecChoice   - backends/geometry_dash.py, _weighted_choice;           *)
(*   SpecTetris   - games_tetris.py, a TetrisGame being played;            *)
(*   SpecSweeper  - games_minesweeper.py, a MinesweeperGame being played.  *)
(* Each specification leaves the variables of the others untouched.        *)
(***************************************************************************)
EXTENDS Integers, Sequences, FiniteSets, TLC

(***************************************************************************)
(* Bounds of the model                                                     *)
(***************************************************************************)
\* add_score calls started in one behaviour (on top of the prefilled start)
MaxAdds == 2
\* times the backing file is damaged or replaced from outside
MaxTampers == 2
\* process crashes (each followed by a restart)
MaxCrashes == 1
\* add_score calls started in one behaviour with faults
MaxFaultAdds == 1

\* requests that reach the rate limiter in one behaviour
MaxServed == 3
\* the clock runs from 0 to MaxClock ticks
MaxClock == 2
\* ticks in a second: time.time() is a float, the window whole seconds
TicksPerSecond == 2

\* next_food is asked about grids of 1..MaxGrid and snakes of up to MaxSnake
\* segments
MaxGrid == 3
MaxSnake == 5

\* the largest magnitude a float takes, in tenths
MaxFloat == 20000

\* request-handling threads of the one server process
Threads == {"t1", "t2"}

None == "none"

(***************************************************************************)
(* Configuration (server.py, CONFIGURATION)                                *)
(***************************************************************************)
MAX_ENTRIES == 15

\* Two of the ten recognised games: one ranked descending, and the one
\* ascending game.  Every game of VALID_GAMES takes the same path.
VALID_GAMES == {"snake", "minesweeper"}

ASCENDING_GAMES == {"minesweeper"}

\* A game name outside VALID_GAMES (the store itself accepts any key).
UnknownGame == "chess"

\* DEFAULT_SCORES as the module defines it: every game an empty list.
EmptyScores == [g \in VALID_GAMES |-> <<>>]

(***************************************************************************)
(* JSON values of a request body as Python sees them, and int(), float()   *)
(* and `or` on them.  A value is [type, n, d]: the number it is or spells  *)
(* is n + d/10 (n whole, d the tenths, of the same sign).  Types: "none"   *)
(* (null or a missing key), "int", "float", "inf" (a float too large, as   *)
(* 1e999), "bool", "empty" (the empty string), "numstr" (a string spelling *)
(* an integer, "12"), "decstr" (a string spelling a decimal, "1.5"), "str" *)
(* (another string), "list", "dict" (non-empty ones).                      *)
(***************************************************************************)
\* the value of type `type` that is or spells v10 tenths
Json(type, v10) ==
    LET n == IF v10 >= 0 THEN v10 \div 10 ELSE -((-v10) \div 10)
    IN  [type |-> type, n |-> n, d |-> v10 - 10 * n]

\* the same for a number too large to count in tenths
JsonLarge(type, n, d) == [type |-> type, n |-> n, d |-> d]

JNone == Json("none", 0)

\* Python's truth value of x, negated
Falsy(x) ==
    \/ x.type \in {"none", "empty"}
    \/ x.type \in {"int", "float", "bool"} /\ x.n = 0 /\ x.d = 0

\* x or default
OrElse(x, default) == IF Falsy(x) THEN default ELSE x

\* what a conversion gives: a number, or the exception it raises
Converted(value) == [error |-> None, value |-> value]
Raises(error) == [error |-> error, value |-> 0]

\* int(x), a whole number: a float is rounded towards zero
PyInt(x) ==
    CASE x.type \in {"int", "bool", "numstr", "float"} -> Converted(x.n)
      [] x.type = "inf" -> Raises("OverflowError")
      [] x.type \in {"empty", "decstr", "str"} -> Raises("ValueError")
      [] OTHER -> Raises("TypeError")

\* float(x), in tenths; a float too large stays what it is
PyFloat(x) ==
    CASE x.type \in {"int", "bool", "float", "numstr", "decstr"} ->
            Converted(10 * x.n + x.d)
      [] x.type = "inf" -> Converted(MaxFloat)
      [] x.type \in {"empty", "str"} -> Raises("ValueError")
      [] OTHER -> Raises("TypeError")

(***************************************************************************)
(* Values passed to add_score                                              *)
(***************************************************************************)
Whitespace == {" ", "\t"}

\* Player names as sequences of characters.  <<>> is the empty string (and
\* None: both are falsy to `not player`).
PlayerInputs == { <<>>, <<" ">>, <<"A">>, <<" ", "A", " ">> }

\* Scores as Python values: the type decides isinstance(score, (int, float));
\* 1, 2, 3, the float 2.5, a string and None
ScoreInputs ==
    { Json("int", 10), Json("int", 20), Json("int", 30), Json("float", 25),
      Json("str", 0), Json("none", 0) }

DifficultyInputs == {""}

Min(a, b) == IF a <= b THEN a ELSE b
Max(a, b) == IF a >= b THEN a ELSE b

(***************************************************************************)
(* str.strip(): drop leading and trailing whitespace                       *)
(***************************************************************************)
RECURSIVE LStrip(_)
LStrip(s) ==
    IF s = <<>> THEN <<>>
    ELSE IF Head(s) \in Whitespace THEN LStrip(Tail(s)) ELSE s

RECURSIVE RStrip(_)
RStrip(s) ==
    IF s = <<>> THEN <<>>
    ELSE IF s[Len(s)] \in Whitespace THEN RStrip(SubSeq(s, 1, Len(s) - 1)) ELSE s

Strip(s) == RStrip(LStrip(s))

\* int(x): truncation toward zero
IntOf(score) == score.n

(***************************************************************************)
(* ScoreStore.add_score, lines 322-332: validation and the entry           *)
(***************************************************************************)
\* a variant that only refuses the empty name
PlayerAcceptsBlank(player) == player = <<>>
\* `not player or not str(player).strip()`
PlayerInvalid(player) == player = <<>> \/ Strip(player) = <<>>

\* `not isinstance(score, (int, float))`
ScoreInvalid(score) == score.type \notin {"int", "float"}

MakeEntry(player, score, difficulty, stamp) ==
    [ player     |-> Strip(player),
      score      |-> IntOf(score),
      difficulty |-> IF difficulty = "" THEN "unknown" ELSE difficulty,
      timestamp  |-> stamp ]

(***************************************************************************)
(* ScoreStore.add_score, lines 336-341: insert, sort, truncate             *)
(***************************************************************************)
\* data.setdefault(game, [])
SetDefault(m, g) ==
    IF g \in DOMAIN m THEN m
    ELSE [x \in DOMAIN m \cup {g} |-> IF x = g THEN <<>> ELSE m[x]]

\* dict.get(game, [])
Get(m, g) == IF g \in DOMAIN m THEN m[g] ELSE <<>>

\* a variant that ranks every game highest first
AlwaysReverse(game) == TRUE
\* reverse = game not in ASCENDING_GAMES
Reverse(game) == game \notin ASCENDING_GAMES

\* a variant in which a tie ranks before too
BeforeOrTied(a, b, reverse) == IF reverse THEN a.score >= b.score ELSE a.score <= b.score
\* a ranks strictly before b
Before(a, b, reverse) == IF reverse THEN a.score > b.score ELSE a.score < b.score

\* Insert e behind every element it does not strictly precede: with the
\* elements taken in list order this is a stable sort, as sorted() is.
RECURSIVE StableInsert(_, _, _)
StableInsert(s, e, reverse) ==
    IF s = <<>> THEN <<e>>
    ELSE IF Before(e, Head(s), reverse) THEN <<e>> \o s
    ELSE <<Head(s)>> \o StableInsert(Tail(s), e, reverse)

RECURSIVE SortedFrom(_, _, _)
SortedFrom(acc, rest, reverse) ==
    IF rest = <<>> THEN acc
    ELSE SortedFrom(StableInsert(acc, Head(rest), reverse), Tail(rest), reverse)

\* sorted(data[game], key=score, reverse=reverse)
Sorted(s, reverse) == SortedFrom(<<>>, s, reverse)

\* a variant that keeps every entry
NoTruncate(s) == s
\* [:MAX_ENTRIES]
Truncate(s) == SubSeq(s, 1, Min(Len(s), MAX_ENTRIES))

\* The list add_score stores for `game`, from the list after the append.
Ranked(appended, game) == Truncate(Sorted(appended, Reverse(game)))

\* The whole read-modify step on a mapping (what one call does to it).
AddTo(m, game, entry) ==
    LET d == SetDefault(m, game)
    IN  [d EXCEPT ![game] = Ranked(Append(d[game], entry), game)]

(***************************************************************************)
(* The files: the scores file (path) and its temporary sibling (tmp)       *)
(***************************************************************************)
NoMap == <<>>
Absent == [kind |-> "missing", map |-> NoMap]    \* no such file
Garbage == [kind |-> "garbage", map |-> NoMap]   \* unparseable, or not an object
Partial == [kind |-> "partial", map |-> NoMap]   \* opened "w", not yet complete
OkFile(m) == [kind |-> "ok", map |-> m]          \* a complete JSON object

\* a variant that opens the score file itself for writing
OpenInPlace(d) == [d EXCEPT !.path = Partial]
\* ScoreStore._write, lines 300-301: open the temporary file for writing
WriteOpen(d) == [d EXCEPT !.tmp = Partial]

\* line 302: json.dump completes and the file is closed
WriteDump(d, m) == [d EXCEPT !.tmp = OkFile(m)]

\* line 303: temp_path.replace(self.path)
WriteReplace(d) == [path |-> d.tmp, tmp |-> Absent]

\* a variant of _read that never finds the file well-formed
NeverReadable(f) == FALSE

\* ScoreStore._read, lines 307-310: does the read succeed?
Readable(f) == f.kind = "ok"

(***************************************************************************)
(* A store a run of the program reaches: MAX_ENTRIES - 1 scores added to   *)
(* each game, one call after the other, on the empty store.                *)
(***************************************************************************)
PrefillCount == MAX_ENTRIES - 1

PrefillEntry(i) ==
    MakeEntry(<<"A">>, Json("int", 10 * (1 + (i % 3))), "", i)

RECURSIVE PrefillTo(_, _)
PrefillTo(g, i) ==
    IF i = 0 THEN <<>>
    ELSE Ranked(Append(PrefillTo(g, i - 1), PrefillEntry(i)), g)

Prefilled == [g \in VALID_GAMES |-> PrefillTo(g, PrefillCount)]

PrefillEntries == { PrefillEntry(i) : i \in 1..PrefillCount }

(***************************************************************************)
(* State                                                                   *)
(***************************************************************************)
VARIABLES
    disk,            \* [path, tmp]: the scores file and its temporary sibling
    DEFAULT_SCORES,  \* the module-level dict of (mutable) lists
    lock,            \* ScoreStore._lock: None or the thread holding it
    boot,            \* "up", or the step ScoreStore.__init__ is at
    pc,              \* each thread's position in its store call
    call,            \* each thread's call: op, game, what its arguments were
    entry,           \* each add_score call's entry
    data,            \* each thread's local `data` (the mapping _read returned)
    aliased,         \* whether data's lists are DEFAULT_SCORES' own lists
    recMap,          \* the mapping the call's recovery wrote and answered from
    result,          \* what the call returned or raised (while pc is "done")
    stamp,           \* entries built so far (the source of their timestamps)
    adds,            \* add_score calls started
    tampers,         \* outside changes of the scores file so far
    crashes,         \* crashes so far
    serial,          \* the mapping a serial run of the committed adds yields
    added,           \* per game, the entries successful add_score calls returned
    \* ---- rate limiter ----
    clock,           \* time.time(), in ticks
    window,          \* RATE_LIMIT_WINDOW, the seconds every route is limited over
    requests,        \* RateLimiter._requests: client -> list of timestamps
    rlLock,          \* RateLimiter._lock
    rpc,             \* each thread's position in rate_limit.wrapped
    req,             \* each thread's request: client, now, outcome, retry_after
    served,          \* requests that have reached the limiter
    acceptLog,       \* per client, each accepted request: its recorded
                     \* timestamp and the instant it was accepted at
    rejected,        \* the clients that have had a request rejected
    \* ---- generators ----
    foodReq,         \* a call of snake.next_food: grid, snake, path taken, food
    pongReq,         \* a call of pong.ai_target: payload, position, prediction
    genReq,          \* a request to a generation endpoint: body, answer
    \* ---- score submission ----
    scoreCall,       \* a call of validate_score: its argument and what it gave
    subReq,          \* the last score-submission request and its answer
    \* ---- game logic ----
    mineReq,         \* a call of minesweeper.generate_board: arguments, mines
    choiceReq,       \* a call of geometry_dash's _weighted_choice
    tetris,          \* a TetrisGame (games_tetris.py)
    sweeper,         \* a MinesweeperGame (games_minesweeper.py)
    routed           \* the request on its way through rate_limit to its route

storeVars ==
    << disk, DEFAULT_SCORES, lock, boot, pc, call, entry, data, aliased, recMap,
       result, stamp, adds, tampers, crashes, serial, added >>

limiterVars ==
    << clock, window, requests, rlLock, rpc, req, served, acceptLog, rejected >>

genVars == << foodReq, pongReq, genReq >>

submitVars == << scoreCall, subReq >>

gameVars == << mineReq, choiceReq, tetris, sweeper, routed >>

vars == << storeVars, limiterVars, genVars, submitVars, gameVars >>

NoEntry == [player |-> <<>>, score |-> 0, difficulty |-> "", timestamp |-> 0]

NoCall == [op |-> None, game |-> None, blank |-> FALSE, nonNumeric |-> FALSE]

NoResult ==
    [error |-> None, recMap |-> NoMap, list |-> <<>>, map |-> NoMap, entry |-> NoEntry]

GameKeys == VALID_GAMES \cup {UnknownGame}

\* no call of next_food
NoFood == [grid |-> 0, snake |-> <<>>, path |-> None, food |-> None]

\* no call of ai_target
NoPong == [payload |-> None, pc |-> "idle", height |-> 0, predicted |-> 0]

\* no request to a generation endpoint
NoGen ==
    [body |-> None, pc |-> "idle", endpoint |-> None, status |-> 0, error |-> None]

\* no call of validate_score
NoScoreCall == [score |-> None, pc |-> "idle", result |-> None]

\* no score submission yet
NoSub == [served |-> 0, pc |-> "idle"]

\* no board is asked for, no pattern drawn, no game being played
NoMines == [pc |-> "idle"]
NoChoice == [pc |-> "idle", weights |-> <<>>, pick |-> 0, result |-> "none"]
NoTetris == [pc |-> "none"]
NoSweeper == [pc |-> "none"]

\* no request has come to a route
NoRouted ==
    [served |-> 0, pc |-> "idle", route |-> None, client |-> None, body |-> None,
     chain |-> <<>>, invoked |-> <<>>, slots |-> 0, status |-> 0, at |-> 0,
     scored |-> <<>>]

GamesIdle ==
    /\ mineReq = NoMines /\ choiceReq = NoChoice
    /\ tetris = NoTetris /\ sweeper = NoSweeper
    /\ routed = NoRouted

\* no generator is being called, nothing is being submitted
GenIdle ==
    /\ foodReq = NoFood /\ pongReq = NoPong /\ genReq = NoGen
    /\ scoreCall = NoScoreCall /\ subReq = NoSub
    /\ GamesIdle

\* Two clients (address and user-agent hash, _get_client_id).
Clients == {"c1", "c2"}

\* What the routes are decorated with: the write routes' max_requests and the
\* larger one of the read routes, and the one window, in seconds, of them all.
RouteLimits == {1, 2}
Windows == {1}

NoReq ==
    [ client |-> None, max_requests |-> 0, now |-> 0, cleanupAt |-> 0,
      allowed |-> None, remaining |-> 0, status |-> 0, retry_after |-> 0,
      afterReject |-> FALSE ]

StartMaps == {EmptyScores, Prefilled}

InitStore ==
    /\ \E m \in StartMaps :
          /\ disk = [path |-> OkFile(m), tmp |-> Absent]
          /\ serial = m
          /\ stamp = (IF m = Prefilled THEN PrefillCount ELSE 0)
          /\ added = [g \in GameKeys |->
                        IF m = Prefilled /\ g \in VALID_GAMES
                        THEN PrefillEntries ELSE {}]
    /\ DEFAULT_SCORES = EmptyScores
    /\ lock = None
    /\ boot = "up"
    /\ pc = [t \in Threads |-> "idle"]
    /\ call = [t \in Threads |-> NoCall]
    /\ entry = [t \in Threads |-> NoEntry]
    /\ data = [t \in Threads |-> NoMap]
    /\ aliased = [t \in Threads |-> FALSE]
    /\ recMap = [t \in Threads |-> NoMap]
    /\ result = [t \in Threads |-> NoResult]
    /\ adds = 0
    /\ tampers = 0
    /\ crashes = 0
    /\ clock = 0
    /\ window = 1
    /\ requests = [c \in Clients |-> <<>>]
    /\ rlLock = None
    /\ rpc = [t \in Threads |-> "idle"]
    /\ req = [t \in Threads |-> NoReq]
    /\ served = 0
    /\ acceptLog = [c \in Clients |-> <<>>]
    /\ rejected = {}
    /\ GenIdle

(***************************************************************************)
(* ScoreStore: the calls, step by step                                     *)
(***************************************************************************)
\* a variant without mutual exclusion
NoLock(t) == TRUE
\* `with self._lock:` may be entered
CanAcquire(t) == lock = None

\* add_score(game, player, score, difficulty) is called: lines 322-332 run
\* outside the lock.  A bad argument raises at once; otherwise the entry is
\* built and the thread goes for the lock.  call[t] keeps what the arguments
\* were: a blank player (empty or all whitespace), a score that is no number.
CallAdd(t) ==
    /\ boot = "up" /\ pc[t] = "idle" /\ adds < MaxAdds
    /\ adds' = adds + 1
    /\ \E g \in VALID_GAMES, p \in PlayerInputs, s \in ScoreInputs,
          d \in DifficultyInputs :
          /\ call' = [call EXCEPT ![t] =
                [ op |-> "add", game |-> g,
                  blank |-> \A i \in 1..Len(p) : p[i] \in Whitespace,
                  nonNumeric |-> s.type \notin {"int", "float"} ]]
          /\ IF PlayerInvalid(p) \/ ScoreInvalid(s)
             THEN /\ pc' = [pc EXCEPT ![t] = "done"]
                  /\ result' = [result EXCEPT ![t] =
                                   [NoResult EXCEPT !.error = "ValueError"]]
                  /\ UNCHANGED << entry, stamp >>
             ELSE /\ pc' = [pc EXCEPT ![t] = "lock"]
                  /\ entry' = [entry EXCEPT ![t] = MakeEntry(p, s, d, stamp + 1)]
                  /\ stamp' = stamp + 1
                  /\ UNCHANGED result
    /\ UNCHANGED << genVars, submitVars, gameVars, limiterVars, disk, DEFAULT_SCORES, lock, boot, data, aliased, recMap,
                    tampers, crashes, serial, added >>

\* leaderboard(game) or games() is called
CallRead(t) ==
    /\ boot = "up" /\ pc[t] = "idle"
    /\ \E c \in { [NoCall EXCEPT !.op = "leaderboard", !.game = g] : g \in GameKeys }
                \cup { [NoCall EXCEPT !.op = "games"] } :
          call' = [call EXCEPT ![t] = c]
    /\ pc' = [pc EXCEPT ![t] = "lock"]
    /\ UNCHANGED << genVars, submitVars, gameVars, limiterVars, disk, DEFAULT_SCORES, lock, boot, entry, data, aliased, recMap,
                    result, stamp, adds, tampers, crashes, serial, added >>

\* with self._lock:
Acquire(t) ==
    /\ pc[t] = "lock" /\ CanAcquire(t)
    /\ lock' = t
    /\ pc' = [pc EXCEPT ![t] = "read"]
    /\ UNCHANGED << genVars, submitVars, gameVars, limiterVars, disk, DEFAULT_SCORES, boot, call, entry, data, aliased, recMap,
                    result, stamp, adds, tampers, crashes, serial, added >>

\* What follows _read's return with mapping m (rec: the mapping a recovery
\* wrote, NoMap without one): add_score goes on to modify m; leaderboard and
\* games return, leaving the lock.
AfterRead(t, m, isAlias, rec) ==
    IF call[t].op = "add"
    THEN /\ pc' = [pc EXCEPT ![t] = "modify"]
         /\ recMap' = [recMap EXCEPT ![t] = rec]
         /\ data' = [data EXCEPT ![t] = m]
         /\ aliased' = [aliased EXCEPT ![t] = isAlias]
         /\ UNCHANGED << lock, result >>
    ELSE /\ pc' = [pc EXCEPT ![t] = "done"]
         /\ lock' = (IF lock = t THEN None ELSE lock)
         /\ result' = [result EXCEPT ![t] =
               [ NoResult EXCEPT
                   !.recMap = rec,
                   !.list = IF call[t].op = "leaderboard"
                               THEN Get(m, call[t].game) ELSE <<>>,
                   !.map = IF call[t].op = "games" THEN m ELSE NoMap ]]
         /\ UNCHANGED << data, aliased, recMap >>

\* _read, lines 306-311: the file holds a JSON object
ReadOk(t) ==
    /\ pc[t] = "read" /\ Readable(disk.path)
    /\ AfterRead(t, disk.path.map, FALSE, NoMap)
    /\ UNCHANGED << genVars, submitVars, gameVars, limiterVars, disk, DEFAULT_SCORES, boot, call, entry, stamp, adds, tampers,
                    crashes, serial, added >>

\* _read, lines 312-313: the read raised
ReadFails(t) ==
    /\ pc[t] = "read" /\ ~Readable(disk.path)
    /\ pc' = [pc EXCEPT ![t] = "rec_open"]
    /\ UNCHANGED << genVars, submitVars, gameVars, limiterVars, disk, DEFAULT_SCORES, lock, boot, call, entry, data, aliased,
                    recMap, result, stamp, adds, tampers, crashes, serial, added >>

\* _read, line 314: self._write(DEFAULT_SCORES), in its three steps
RecOpen(t) ==
    /\ pc[t] = "rec_open"
    /\ disk' = WriteOpen(disk)
    /\ pc' = [pc EXCEPT ![t] = "rec_dump"]
    /\ UNCHANGED << genVars, submitVars, gameVars, limiterVars, DEFAULT_SCORES, lock, boot, call, entry, data, aliased, recMap,
                    result, stamp, adds, tampers, crashes, serial, added >>

RecDump(t) ==
    /\ pc[t] = "rec_dump"
    /\ disk' = WriteDump(disk, DEFAULT_SCORES)
    /\ pc' = [pc EXCEPT ![t] = "rec_replace"]
    /\ UNCHANGED << genVars, submitVars, gameVars, limiterVars, DEFAULT_SCORES, lock, boot, call, entry, data, aliased, recMap,
                    result, stamp, adds, tampers, crashes, serial, added >>

\* ... and line 315: return dict(DEFAULT_SCORES), a copy of the dict that
\* shares its lists
RecReplace(t) ==
    /\ pc[t] = "rec_replace"
    /\ disk' = WriteReplace(disk)
    /\ AfterRead(t, DEFAULT_SCORES, TRUE, DEFAULT_SCORES)
    /\ UNCHANGED << genVars, submitVars, gameVars, limiterVars, DEFAULT_SCORES, boot, call, entry, stamp, adds, tampers,
                    crashes, serial, added >>

\* add_score, lines 336-341.  The append acts on the list object itself:
\* after a recovery that object is DEFAULT_SCORES' list.
Modify(t) ==
    /\ pc[t] = "modify"
    /\ LET g == call[t].game
           shared == aliased[t] /\ g \in DOMAIN DEFAULT_SCORES
           d == SetDefault(data[t], g)
           appended == Append(IF shared THEN DEFAULT_SCORES[g] ELSE d[g], entry[t])
       IN  /\ DEFAULT_SCORES' =
                 (IF shared THEN [DEFAULT_SCORES EXCEPT ![g] = appended]
                  ELSE DEFAULT_SCORES)
           /\ data' = [data EXCEPT ![t] = [d EXCEPT ![g] = Ranked(appended, g)]]
    /\ pc' = [pc EXCEPT ![t] = "w_open"]
    /\ UNCHANGED << genVars, submitVars, gameVars, limiterVars, disk, lock, boot, call, entry, aliased, recMap, result, stamp,
                    adds, tampers, crashes, serial, added >>

\* add_score, line 342: self._write(data), in its three steps
WOpen(t) ==
    /\ pc[t] = "w_open"
    /\ disk' = WriteOpen(disk)
    /\ pc' = [pc EXCEPT ![t] = "w_dump"]
    /\ UNCHANGED << genVars, submitVars, gameVars, limiterVars, DEFAULT_SCORES, lock, boot, call, entry, data, aliased, recMap,
                    result, stamp, adds, tampers, crashes, serial, added >>

WDump(t) ==
    /\ pc[t] = "w_dump"
    /\ disk' = WriteDump(disk, data[t])
    /\ pc' = [pc EXCEPT ![t] = "w_replace"]
    /\ UNCHANGED << genVars, submitVars, gameVars, limiterVars, DEFAULT_SCORES, lock, boot, call, entry, data, aliased, recMap,
                    result, stamp, adds, tampers, crashes, serial, added >>

\* ... the rename, then the lock is left and the entry returned (line 345).
\* serial and added follow the committed adds for as long as nobody else
\* has touched the file.
WReplace(t) ==
    /\ pc[t] = "w_replace"
    /\ disk' = WriteReplace(disk)
    /\ lock' = (IF lock = t THEN None ELSE lock)
    /\ pc' = [pc EXCEPT ![t] = "done"]
    /\ result' = [result EXCEPT ![t] =
                     [NoResult EXCEPT !.recMap = recMap[t], !.entry = entry[t]]]
    /\ IF tampers = 0
       THEN /\ serial' = AddTo(serial, call[t].game, entry[t])
            /\ added' = [added EXCEPT ![call[t].game] = @ \cup {entry[t]}]
       ELSE UNCHANGED << serial, added >>
    /\ UNCHANGED << genVars, submitVars, gameVars, limiterVars, DEFAULT_SCORES, boot, call, entry, data, aliased, recMap,
                    stamp, adds, tampers, crashes >>

\* The caller has its answer; the thread is free for the next call.
Finish(t) ==
    /\ pc[t] = "done"
    /\ pc' = [pc EXCEPT ![t] = "idle"]
    /\ call' = [call EXCEPT ![t] = NoCall]
    /\ entry' = [entry EXCEPT ![t] = NoEntry]
    /\ data' = [data EXCEPT ![t] = NoMap]
    /\ aliased' = [aliased EXCEPT ![t] = FALSE]
    /\ recMap' = [recMap EXCEPT ![t] = NoMap]
    /\ result' = [result EXCEPT ![t] = NoResult]
    /\ UNCHANGED << genVars, submitVars, gameVars, limiterVars, disk, DEFAULT_SCORES, lock, boot, stamp, adds, tampers,
                    crashes, serial, added >>

(***************************************************************************)
(* The process: crash and restart, and the file changed from outside       *)
(***************************************************************************)
\* The process dies at any point.  Memory is lost (the threads, the lock,
\* DEFAULT_SCORES as mutated); the files stay as they are.  A new process
\* starts by constructing the store.
Crash ==
    /\ crashes < MaxCrashes
    /\ crashes' = crashes + 1
    /\ boot' = "check"
    /\ lock' = None
    /\ DEFAULT_SCORES' = EmptyScores
    /\ pc' = [t \in Threads |-> "idle"]
    /\ call' = [t \in Threads |-> NoCall]
    /\ entry' = [t \in Threads |-> NoEntry]
    /\ data' = [t \in Threads |-> NoMap]
    /\ aliased' = [t \in Threads |-> FALSE]
    /\ recMap' = [t \in Threads |-> NoMap]
    /\ result' = [t \in Threads |-> NoResult]
    /\ UNCHANGED << genVars, submitVars, gameVars, limiterVars, disk, stamp, adds, tampers, serial, added >>

\* ScoreStore.__init__, lines 295-296: if not self.path.exists(): _write(DEFAULT_SCORES)
BootCheck ==
    /\ boot = "check"
    /\ boot' = (IF disk.path.kind = "missing" THEN "open" ELSE "up")
    /\ UNCHANGED << genVars, submitVars, gameVars, limiterVars, disk, DEFAULT_SCORES, lock, pc, call, entry, data, aliased,
                    recMap, result, stamp, adds, tampers, crashes, serial, added >>

BootOpen ==
    /\ boot = "open"
    /\ disk' = WriteOpen(disk)
    /\ boot' = "dump"
    /\ UNCHANGED << genVars, submitVars, gameVars, limiterVars, DEFAULT_SCORES, lock, pc, call, entry, data, aliased, recMap,
                    result, stamp, adds, tampers, crashes, serial, added >>

BootDump ==
    /\ boot = "dump"
    /\ disk' = WriteDump(disk, DEFAULT_SCORES)
    /\ boot' = "replace"
    /\ UNCHANGED << genVars, submitVars, gameVars, limiterVars, DEFAULT_SCORES, lock, pc, call, entry, data, aliased, recMap,
                    result, stamp, adds, tampers, crashes, serial, added >>

BootReplace ==
    /\ boot = "replace"
    /\ disk' = WriteReplace(disk)
    /\ boot' = "up"
    /\ UNCHANGED << genVars, submitVars, gameVars, limiterVars, DEFAULT_SCORES, lock, pc, call, entry, data, aliased, recMap,
                    result, stamp, adds, tampers, crashes, serial, added >>

\* A JSON object with the same entries, every list in the opposite order.
RECURSIVE Reversed(_)
Reversed(s) == IF s = <<>> THEN <<>> ELSE Append(Reversed(Tail(s)), Head(s))

Reordered(f) ==
    IF f.kind = "ok"
    THEN { OkFile([g \in DOMAIN f.map |-> Reversed(f.map[g])]) }
    ELSE {}

\* Someone else deletes the scores file, overwrites it with something that is
\* no JSON object, or rewrites it with its lists reordered.  From then on
\* serial and added no longer describe it.
Tamper ==
    /\ tampers < MaxTampers
    /\ tampers' = tampers + 1
    /\ \E f \in {Absent, Garbage} \cup Reordered(disk.path) :
          disk' = [disk EXCEPT !.path = f]
    /\ serial' = NoMap
    /\ added' = [g \in GameKeys |-> {}]
    /\ UNCHANGED << genVars, submitVars, gameVars, limiterVars, DEFAULT_SCORES, lock, boot, pc, call, entry, data, aliased,
                    recMap, result, stamp, adds, crashes >>

\* Store calls by any thread, with no fault: nobody touches the file from
\* outside and the process does not crash.
NextStore ==
    \/ \E t \in Threads : CallAdd(t)
    \/ \E t \in Threads : CallRead(t)
    \/ \E t \in Threads : Acquire(t)
    \/ \E t \in Threads : ReadOk(t)
    \/ \E t \in Threads : Modify(t)
    \/ \E t \in Threads : WOpen(t)
    \/ \E t \in Threads : WDump(t)
    \/ \E t \in Threads : WReplace(t)
    \/ \E t \in Threads : Finish(t)

SpecStore == InitStore /\ [][NextStore]_vars

\* The same calls with faults: the file damaged from outside, the process
\* crashing and restarting.
CallAddFaulty(t) == adds < MaxFaultAdds /\ CallAdd(t)

NextFaults ==
    \/ \E t \in Threads : CallAddFaulty(t)
    \/ \E t \in Threads : CallRead(t)
    \/ \E t \in Threads : Acquire(t)
    \/ \E t \in Threads : ReadOk(t)
    \/ \E t \in Threads : ReadFails(t)
    \/ \E t \in Threads : RecOpen(t)
    \/ \E t \in Threads : RecDump(t)
    \/ \E t \in Threads : RecReplace(t)
    \/ \E t \in Threads : Modify(t)
    \/ \E t \in Threads : WOpen(t)
    \/ \E t \in Threads : WDump(t)
    \/ \E t \in Threads : WReplace(t)
    \/ \E t \in Threads : Finish(t)
    \/ Crash
    \/ BootCheck
    \/ BootOpen
    \/ BootDump
    \/ BootReplace
    \/ Tamper

SpecFaults == InitStore /\ [][NextFaults]_vars

(***************************************************************************)
(* RateLimiter and the rate_limit decorator                                *)
(***************************************************************************)
\* the window in ticks of the clock
WindowTicks == window * TicksPerSecond

\* int(x) of a duration given in ticks: whole seconds, rounded towards zero
IntSeconds(ticks) ==
    IF ticks >= 0 THEN ticks \div TicksPerSecond
    ELSE -((-ticks) \div TicksPerSecond)

\* the smallest timestamp of a non-empty list
MinOf(list) ==
    CHOOSE x \in {list[i] : i \in 1..Len(list)} :
        \A i \in 1..Len(list) : x <= list[i]

\* a variant that also keeps a timestamp exactly one window old
FreshOrAtCutoff(ts, cutoff) == ts >= cutoff
\* `ts > cutoff`: the timestamps _cleanup_old_requests keeps
Fresh(ts, cutoff) == ts > cutoff

\* _cleanup_old_requests at the instant `at`
Cleanup(list, at) ==
    SelectSeq(list, LAMBDA ts : Fresh(ts, at - WindowTicks))

\* get_retry_after at the instant `at`, in seconds
RetryAfter(list, at) ==
    IF list = <<>> THEN 0
    ELSE Max(0, IntSeconds(WindowTicks - (at - MinOf(list))))

\* A request of client c arrives at a route limited to m requests: is_allowed
\* reads the client id and the time before it goes for the lock.
RStart(t, c, m) ==
    /\ rpc[t] = "idle"
    /\ served < MaxServed
    /\ served' = served + 1
    /\ req' = [req EXCEPT ![t] =
                  [NoReq EXCEPT !.client = c, !.max_requests = m, !.now = clock,
                                !.afterReject = (c \in rejected)]]
    /\ rpc' = [rpc EXCEPT ![t] = "lock"]
    /\ UNCHANGED << genVars, submitVars, gameVars, storeVars, clock, window, requests, rlLock, acceptLog,
                    rejected >>

\* `with self._lock:` in is_allowed
RAcquire(t) ==
    /\ rpc[t] = "lock"
    /\ rlLock = None
    /\ rlLock' = t
    /\ rpc' = [rpc EXCEPT ![t] = "check"]
    /\ UNCHANGED << genVars, submitVars, gameVars, storeVars, clock, window, requests, req, served,
                    acceptLog, rejected >>

\* Inside the lock: _cleanup_old_requests reads the clock again and prunes the
\* client's list, and the count of what is left is compared with the limit.  A
\* rejection records nothing; an acceptance appends the time read before the
\* lock.  Leaving the `with` block releases the lock.
RCheck(t) ==
    LET c == req[t].client
        kept == Cleanup(requests[c], clock)
        current_count == Len(kept)
    IN  /\ rpc[t] = "check"
        /\ rlLock' = None
        /\ IF current_count >= req[t].max_requests
           THEN /\ requests' = [requests EXCEPT ![c] = kept]
                /\ req' = [req EXCEPT ![t].cleanupAt = clock,
                                      ![t].allowed = FALSE,
                                      ![t].remaining = 0]
                /\ rpc' = [rpc EXCEPT ![t] = "retry"]
                /\ rejected' = rejected \cup {c}
                /\ UNCHANGED acceptLog
           ELSE /\ requests' = [requests EXCEPT ![c] = Append(kept, req[t].now)]
                /\ req' = [req EXCEPT
                              ![t].cleanupAt = clock,
                              ![t].allowed = TRUE,
                              ![t].remaining =
                                  req[t].max_requests - current_count - 1,
                              ![t].status = 200]
                /\ rpc' = [rpc EXCEPT ![t] = "done"]
                /\ acceptLog' = [acceptLog EXCEPT ![c] =
                                    Append(@, [ts |-> req[t].now, at |-> clock,
                                               max_requests |->
                                                   req[t].max_requests])]
                /\ UNCHANGED rejected
        /\ UNCHANGED << genVars, submitVars, gameVars, storeVars, clock, window, served >>

\* a rejected request asks get_retry_after, which takes the lock again, and
\* answers 429
RRetryAfter(t) ==
    /\ rpc[t] = "retry"
    /\ rlLock = None
    /\ req' = [req EXCEPT
                  ![t].retry_after = RetryAfter(requests[req[t].client], clock),
                  ![t].status = 429]
    /\ rpc' = [rpc EXCEPT ![t] = "done"]
    /\ UNCHANGED << genVars, submitVars, gameVars, storeVars, clock, window, requests, rlLock, served,
                    acceptLog, rejected >>

\* the response is sent
RFinish(t) ==
    /\ rpc[t] = "done"
    /\ rpc' = [rpc EXCEPT ![t] = "idle"]
    /\ req' = [req EXCEPT ![t] = NoReq]
    /\ UNCHANGED << genVars, submitVars, gameVars, storeVars, clock, window, requests, rlLock, served,
                    acceptLog, rejected >>

\* time passes
Tick ==
    /\ clock < MaxClock
    /\ clock' = clock + 1
    /\ UNCHANGED << genVars, submitVars, gameVars, storeVars, window, requests, rlLock, rpc, req, served,
                    acceptLog, rejected >>

\* The server is up with an empty store and an empty limiter; the routes'
\* window is fixed at import.
InitLimiter ==
    /\ disk = [path |-> OkFile(EmptyScores), tmp |-> Absent]
    /\ serial = EmptyScores
    /\ stamp = 0
    /\ added = [g \in GameKeys |-> {}]
    /\ DEFAULT_SCORES = EmptyScores
    /\ lock = None
    /\ boot = "up"
    /\ pc = [t \in Threads |-> "idle"]
    /\ call = [t \in Threads |-> NoCall]
    /\ entry = [t \in Threads |-> NoEntry]
    /\ data = [t \in Threads |-> NoMap]
    /\ aliased = [t \in Threads |-> FALSE]
    /\ recMap = [t \in Threads |-> NoMap]
    /\ result = [t \in Threads |-> NoResult]
    /\ adds = 0
    /\ tampers = 0
    /\ crashes = 0
    /\ clock = 0
    /\ window \in Windows
    /\ requests = [c \in Clients |-> <<>>]
    /\ rlLock = None
    /\ rpc = [t \in Threads |-> "idle"]
    /\ req = [t \in Threads |-> NoReq]
    /\ served = 0
    /\ acceptLog = [c \in Clients |-> <<>>]
    /\ rejected = {}
    /\ GenIdle

NextLimiter ==
    \/ \E t \in Threads, c \in Clients, m \in RouteLimits : RStart(t, c, m)
    \/ \E t \in Threads : RAcquire(t)
    \/ \E t \in Threads : RCheck(t)
    \/ \E t \in Threads : RRetryAfter(t)
    \/ \E t \in Threads : RFinish(t)
    \/ Tick

SpecLimiter == InitLimiter /\ [][NextLimiter]_vars

(***************************************************************************)
(* Properties of the score store                                           *)
(***************************************************************************)
Range(s) == { s[i] : i \in 1..Len(s) }

\* The stored mapping (the store's file holds a JSON object).
Stored == disk.path.map

\* C2 (retention cap).  With the file touched by nobody but the store, after
\* any sequence of add_score, leaderboard and games calls every game's list
\* holds at most 15 entries, and so does every list a call returns.
C2_RetentionCap ==
    /\ disk.path.kind = "ok"
    /\ \A g \in DOMAIN Stored : Len(Stored[g]) <= 15
    /\ \A t \in Threads :
          /\ Len(result[t].list) <= 15
          /\ \A g \in DOMAIN result[t].map : Len(result[t].map[g]) <= 15

\* More scores were added to a game than its list may hold, and it holds 15.
C2_Witness ==
    \E g \in VALID_GAMES : Cardinality(added[g]) > 15 /\ Len(Stored[g]) = 15

\* Ranked as the game asks: ascending for minesweeper, descending otherwise.
InOrder(s, g) ==
    \A i \in 1..(Len(s) - 1) :
        IF g = "minesweeper" THEN s[i].score <= s[i + 1].score
        ELSE s[i].score >= s[i + 1].score

\* C3 (ordering).  Every add_score(game, ...) leaves the game's stored list
\* sorted by score, ascending for minesweeper and descending for every other
\* game, whatever order the list was in before the call.
C3_SortedAfterAdd ==
    [][ \A t \in Threads :
          (pc[t] = "w_replace" /\ pc'[t] = "done")
             => /\ disk'.path.kind = "ok"
                /\ call[t].game \in DOMAIN disk'.path.map
                /\ InOrder(disk'.path.map[call[t].game], call[t].game) ]_vars

\* An add_score has just returned for a list that somebody had reordered:
\* the list holds several different scores.
C3_Witness ==
    \E t \in Threads :
        /\ pc[t] = "done" /\ call[t].op = "add" /\ tampers > 0
        /\ disk.path.kind = "ok"
        /\ LET s == Stored[call[t].game]
           IN  Len(s) = 15 /\ s[1].score # s[15].score
        /\ call[t].game = "minesweeper"

InCritical(t) == pc[t] \in {"read", "modify", "w_open", "w_dump", "w_replace"}

\* C4 (serialised access).  Whatever the interleaving of concurrent
\* add_score, leaderboard and games calls, the file is what the committed
\* adds yield when run one after the other; a call that is between its read
\* and its write works on the current mapping (so its write loses nobody
\* else's entry); and an entry a call returned is in its game's list unless
\* the list is full.
C4_Serialised ==
    /\ disk.path = OkFile(serial)
    /\ \A t \in Threads :
          /\ pc[t] = "modify" => data[t] = serial
          /\ pc[t] \in {"w_open", "w_dump", "w_replace"}
                => data[t] = AddTo(serial, call[t].game, entry[t])
    /\ \A t1, t2 \in Threads : InCritical(t1) /\ InCritical(t2) => t1 = t2
    /\ \A g \in VALID_GAMES : \A e \in added[g] :
          e \in Range(Stored[g]) \/ Len(Stored[g]) = 15

\* Two add_score calls overlap: one is about to rename its file while the
\* other, whose entry was built first, waits for the lock.
C4_Witness ==
    \E t1, t2 \in Threads :
        /\ pc[t1] = "w_replace" /\ pc[t2] = "lock" /\ call[t2].op = "add"
        /\ entry[t2].timestamp < entry[t1].timestamp

\* The mappings a write in progress is about to put in place.
PendingMaps ==
    { data[t] : t \in { u \in Threads : pc[u] = "w_replace" } }
    \cup (IF boot = "replace" \/ \E t \in Threads : pc[t] = "rec_replace"
          THEN {DEFAULT_SCORES} ELSE {})

\* C5 (atomic persistence).  At every step of a store write, and when the
\* process crashes at any point inside one, the scores file is never a
\* partially written file: a step of the store leaves the file as it was or
\* replaces it by the complete new mapping.
C5_AtomicPersistence ==
    [][ /\ disk.path.kind # "partial" /\ disk'.path.kind # "partial"
        /\ (disk'.path # disk.path /\ tampers' = tampers)
              => \E m \in PendingMaps : disk'.path = OkFile(m) ]_vars

\* The process crashed inside a write: the temporary file is left half
\* written, no call is running, and the scores file is a complete mapping.
C5_Witness ==
    /\ crashes > 0 /\ disk.tmp.kind = "partial"
    /\ \A t \in Threads : pc[t] = "idle"
    /\ disk.path.kind = "ok" /\ Stored # EmptyScores

\* C6 (corruption recovery).  Whenever a call finds the file missing,
\* unparseable or not a JSON object, it rewrites the file with the mapping in
\* which every recognised game has an empty list and answers from that empty
\* mapping, also after scores were stored and after earlier recoveries.
C6_RecoveryResetsToEmpty ==
    \A t \in Threads :
        (pc[t] = "done" /\ result[t].recMap # NoMap)
           => /\ result[t].recMap = EmptyScores
              /\ call[t].op = "leaderboard" => result[t].list = <<>>
              /\ call[t].op = "games" => result[t].map = EmptyScores
              /\ call[t].op = "add" => data[t][call[t].game] = <<entry[t]>>

\* C7 (validation).  add_score called with an empty or whitespace-only
\* player, or with a score that is no number, raises ValueError, and the call
\* changes neither the file nor any in-memory mapping.
C7_InvalidAddRaises ==
    [][ \A t \in Threads :
          (pc[t] = "idle" /\ call'[t].op = "add"
              /\ (call'[t].blank \/ call'[t].nonNumeric))
             => /\ pc'[t] = "done"
                /\ result'[t].error = "ValueError"
                /\ disk' = disk
                /\ DEFAULT_SCORES' = DEFAULT_SCORES
                /\ serial' = serial /\ added' = added ]_vars

\* Both kinds of bad call have raised: a blank player on one thread, a
\* non-numeric score on the other, with scores in the store.
C7_Witness ==
    \E t1, t2 \in Threads :
        /\ pc[t1] = "done" /\ call[t1].blank /\ ~call[t1].nonNumeric
        /\ result[t1].error = "ValueError"
        /\ pc[t2] = "done" /\ call[t2].nonNumeric /\ ~call[t2].blank
        /\ result[t2].error = "ValueError"
        /\ Stored = Prefilled

(***************************************************************************)
(* Properties of the rate limiter                                          *)
(***************************************************************************)
\* the client's accepted requests, as positions in its log
Accepted(c) == 1..Len(acceptLog[c])

\* C8: for each client and each route limit, at every instant at most
\* max_requests of the client's requests accepted through routes of that limit
\* were accepted inside the trailing window, whatever the interleaving.
C8_WindowLimit ==
    \A c \in Clients, m \in RouteLimits :
        Cardinality({ i \in Accepted(c) :
                         /\ acceptLog[c][i].max_requests = m
                         /\ acceptLog[c][i].at > clock - WindowTicks }) <= m

\* C9: a request is rejected only while at least max_requests accepted
\* timestamps of its client lie in the trailing window, so some request of the
\* client was accepted less than a window before it; rejected requests are not
\* among them, and a request made once the window has passed since the last
\* acceptance is accepted.
C9_RecoveryAfterWindow ==
    \A t \in Threads :
        (rpc[t] \in {"retry", "done"} /\ req[t].allowed = FALSE) =>
            LET c == req[t].client
            IN  /\ Cardinality({ i \in Accepted(c) :
                        acceptLog[c][i].ts > req[t].cleanupAt - WindowTicks })
                       >= req[t].max_requests
                /\ \E i \in Accepted(c) :
                       acceptLog[c][i].ts > req[t].now - WindowTicks
                /\ Len(requests[c]) <= Len(acceptLog[c])

\* a client that was rejected at a route of limit 1 has a later request of its
\* own accepted there, its second acceptance
C9_Witness ==
    \E t \in Threads :
        LET c == req[t].client
        IN  /\ rpc[t] = "done" /\ req[t].allowed = TRUE
            /\ req[t].afterReject
            /\ req[t].max_requests = 1
            /\ Len(acceptLog[c]) = 2

\* C10: every 429 answer carries a retry_after that is strictly positive and
\* at most the window.
C10_RetryAfterPositive ==
    \A t \in Threads :
        (rpc[t] = "done" /\ req[t].status = 429) =>
            /\ req[t].retry_after > 0
            /\ req[t].retry_after <= window

(***************************************************************************)
(* The store and the limiter at rest, for the specifications of the        *)
(* generators and of the request handlers                                  *)
(***************************************************************************)
StoreIdle ==
    /\ disk = [path |-> OkFile(EmptyScores), tmp |-> Absent]
    /\ serial = EmptyScores
    /\ stamp = 0
    /\ added = [g \in GameKeys |-> {}]
    /\ DEFAULT_SCORES = EmptyScores
    /\ lock = None
    /\ boot = "up"
    /\ pc = [t \in Threads |-> "idle"]
    /\ call = [t \in Threads |-> NoCall]
    /\ entry = [t \in Threads |-> NoEntry]
    /\ data = [t \in Threads |-> NoMap]
    /\ aliased = [t \in Threads |-> FALSE]
    /\ recMap = [t \in Threads |-> NoMap]
    /\ result = [t \in Threads |-> NoResult]
    /\ adds = 0
    /\ tampers = 0
    /\ crashes = 0

LimiterIdle ==
    /\ clock = 0
    /\ window = 1
    /\ requests = [c \in Clients |-> <<>>]
    /\ rlLock = None
    /\ rpc = [t \in Threads |-> "idle"]
    /\ req = [t \in Threads |-> NoReq]
    /\ served = 0
    /\ acceptLog = [c \in Clients |-> <<>>]
    /\ rejected = {}

(***************************************************************************)
(* backends/snake.py: next_food                                            *)
(***************************************************************************)
\* the cells of the snake's segments (_occupied)
Occupied(snake) == { snake[i] : i \in 1..Len(snake) }

InGrid(c, grid) == 0 <= c[1] /\ c[1] < grid /\ 0 <= c[2] /\ c[2] < grid

\* the i-th cell of `for x in range(grid) for y in range(grid)`
CellAt(i, grid) == << (i - 1) \div grid, (i - 1) % grid >>

\* a variant that lists every cell of the grid
EveryCell(grid, taken) == [i \in 1..(grid * grid) |-> CellAt(i, grid)]
\* open_spaces: the cells of the grid not in taken, x-major
OpenSpaces(grid, taken) ==
    SelectSeq([i \in 1..(grid * grid) |-> CellAt(i, grid)],
              LAMBDA c : c \notin taken)

\* for dx, dy in [(0, 1), (0, -1), (1, 0), (-1, 0)]
Steps == << <<0, 1>>, <<0, -1>>, <<1, 0>>, <<-1, 0>> >>

Plus(c, d) == << c[1] + d[1], c[2] + d[2] >>

\* The neighbours of c a step of the fill newly visits, in the order of Steps:
\* those in the grid and not yet visited.
NewlyVisited(c, visited, grid) ==
    SelectSeq([k \in 1..Len(Steps) |-> Plus(c, Steps[k])],
              LAMBDA n : n \notin visited /\ InGrid(n, grid))

\* _flood_fill's loop: pop a cell; skip it if blocked or outside the grid;
\* otherwise it is reachable, its new neighbours are marked visited and those
\* not blocked are queued.
RECURSIVE Fill(_, _, _, _, _)
Fill(queue, visited, reachable, blocked, grid) ==
    IF queue = <<>> THEN reachable
    ELSE LET c == Head(queue)
         IN  IF c \in blocked \/ ~InGrid(c, grid)
             THEN Fill(Tail(queue), visited, reachable, blocked, grid)
             ELSE LET new == NewlyVisited(c, visited, grid)
                  IN  Fill(Tail(queue) \o SelectSeq(new, LAMBDA n : n \notin blocked),
                           visited \cup Occupied(new),
                           reachable \cup {c}, blocked, grid)

FloodFill(start, blocked, grid) == Fill(<< start >>, {start}, {}, blocked, grid)

\* how many of the cells c + d, d in ds, are in the grid and free
OpenAround(c, ds, snake_set, grid) ==
    Cardinality({ k \in 1..Len(ds) :
                     /\ InGrid(Plus(c, ds[k]), grid)
                     /\ Plus(c, ds[k]) \notin snake_set })

\* the offsets of the second loop of _get_safe_score
Farther ==
    << <<0, 2>>, <<0, -2>>, <<2, 0>>, <<-2, 0>>,
       <<1, 1>>, <<1, -1>>, <<-1, 1>>, <<-1, -1>> >>

\* _get_safe_score: int(score * 10), the halves counted as 5
GetSafeScore(pos, snake_set, grid) ==
    LET edge_dist == Min(Min(pos[1], pos[2]),
                         Min(grid - 1 - pos[1], grid - 1 - pos[2]))
    IN  10 * OpenAround(pos, Steps, snake_set, grid)
          + 10 * Min(edge_dist, 3)
          + 5 * OpenAround(pos, Farther, snake_set, grid)

\* head_pos: the first segment, or the middle of the grid for no snake
HeadPos(grid, snake) ==
    IF snake /= <<>> THEN snake[1] ELSE << grid \div 2, grid \div 2 >>

\* a variant that takes every open space as reachable
AnyOpenSpace(open_spaces, reachable) == open_spaces
\* reachable_spaces: the open spaces the fill reached
ReachableSpaces(open_spaces, reachable) ==
    SelectSeq(open_spaces, LAMBDA c : c \in reachable)

\* top_positions: the best third (at least one) of the reachable spaces by
\* their score, highest first, ties in their order
TopPositions(reachable_spaces, taken, grid) ==
    LET scored == <<>> \o [k \in 1..Len(reachable_spaces) |->
                     [pos |-> reachable_spaces[k],
                      score |-> GetSafeScore(reachable_spaces[k], taken, grid)]]
        ranked == Sorted(scored, TRUE)
        top_count == Max(1, Len(ranked) \div 3)
    IN  [k \in 1..top_count |-> ranked[k].pos]

\* next_food(grid, snake): the path it takes and the list its answer is drawn
\* from by rng.choice (an empty list: the answer is (0, 0), not drawn)
FoodPlan(grid, snake) ==
    LET taken == Occupied(snake)
        head_pos == HeadPos(grid, snake)
        open_spaces == OpenSpaces(grid, taken)
        reachable == FloodFill(head_pos, taken \ {head_pos}, grid)
        reachable_spaces == ReachableSpaces(open_spaces, reachable)
    IN  IF open_spaces = <<>> THEN [path |-> "full", from |-> <<>>]
        ELSE IF Len(snake) < 5 THEN [path |-> "basic", from |-> open_spaces]
        ELSE IF reachable_spaces = <<>>
             THEN [path |-> "fallback", from |-> open_spaces]
        ELSE [path |-> "smart",
              from |-> TopPositions(reachable_spaces, taken, grid)]

\* the cells a segment of the request may name: the grid and, outside it, the
\* column to its left
SegmentCells(grid) == { << x, y >> : x \in -1..(grid - 1), y \in 0..(grid - 1) }

Adjacent(c, d) == \E k \in 1..Len(Steps) : d = Plus(c, Steps[k])

\* The caller has a grid of 1..MaxGrid and no snake yet.
InitSnake ==
    /\ StoreIdle
    /\ LimiterIdle
    /\ pongReq = NoPong
    /\ genReq = NoGen
    /\ scoreCall = NoScoreCall
    /\ subReq = NoSub
    /\ GamesIdle
    /\ \E grid \in 1..MaxGrid : foodReq = [NoFood EXCEPT !.grid = grid]

\* the caller's snake gets one more segment, next to its last one
SnakeGrow(c) ==
    /\ foodReq.path = None
    /\ Len(foodReq.snake) < MaxSnake
    /\ c \in SegmentCells(foodReq.grid)
    /\ IF foodReq.snake = <<>> THEN TRUE
       ELSE Adjacent(foodReq.snake[Len(foodReq.snake)], c)
    /\ foodReq' = [foodReq EXCEPT !.snake = Append(@, c)]
    /\ UNCHANGED << storeVars, limiterVars, pongReq, genReq, submitVars, gameVars >>

\* next_food(grid, snake) is called; k is what rng.choice draws
NextFood ==
    LET plan == FoodPlan(foodReq.grid, foodReq.snake)
    IN  /\ foodReq.path = None
        /\ IF plan.from = <<>>
           THEN foodReq' = [foodReq EXCEPT !.path = plan.path,
                                           !.food = << 0, 0 >>]
           ELSE \E k \in 1..Len(plan.from) :
                    foodReq' = [foodReq EXCEPT !.path = plan.path,
                                               !.food = plan.from[k]]
        /\ UNCHANGED << storeVars, limiterVars, pongReq, genReq, submitVars, gameVars >>

NextSnake ==
    \/ \E c \in SegmentCells(MaxGrid) : SnakeGrow(c)
    \/ NextFood

SpecSnake == InitSnake /\ [][NextSnake]_vars

(***************************************************************************)
(* Properties of next_food                                                 *)
(***************************************************************************)
\* the cells of the grid the snake leaves free
FreeCells(grid, snake) ==
    { c \in SegmentCells(grid) : InGrid(c, grid) /\ c \notin Occupied(snake) }

\* C11: whenever the snake leaves a cell of the grid free, the food next_food
\* returns (by its basic, smart or fallback path) is a cell of the grid that
\* no segment of the snake occupies.
C11_FoodOffSnake ==
    (foodReq.path /= None /\ FreeCells(foodReq.grid, foodReq.snake) /= {}) =>
        /\ InGrid(foodReq.food, foodReq.grid)
        /\ foodReq.food \notin Occupied(foodReq.snake)

\* a snake of five segments or more that walls its head in, with free cells
\* elsewhere: the fallback path has answered
C11_Witness ==
    /\ foodReq.path = "fallback"
    /\ InGrid(HeadPos(foodReq.grid, foodReq.snake), foodReq.grid)
    /\ FreeCells(foodReq.grid, foodReq.snake) /= {}

\* The cells joined to the head by 4-directional steps through free cells of
\* the grid, as the least set closed under such steps.
RECURSIVE Joined(_, _, _)
Joined(set, grid, snake) ==
    LET more == { c \in FreeCells(grid, snake) : \E d \in set : Adjacent(d, c) }
    IN  IF more \subseteq set THEN set ELSE Joined(set \cup more, grid, snake)

JoinedToHead(grid, snake) ==
    IF snake /= <<>> /\ InGrid(snake[1], grid)
    THEN Joined({snake[1]}, grid, snake) ELSE {}

\* C12: for a snake of at least 5 segments with a free cell joined to its head,
\* the food returned is free and joined to the head by 4-directional steps
\* through free cells.
C12_FoodReachable ==
    (foodReq.path /= None /\ Len(foodReq.snake) >= 5) =>
        LET joined == JoinedToHead(foodReq.grid, foodReq.snake)
        IN  joined \ Occupied(foodReq.snake) /= {} =>
                /\ foodReq.food \in joined
                /\ foodReq.food \notin Occupied(foodReq.snake)

\* a snake of five segments or more that cuts the grid in two: free cells on
\* the head's side and free cells beyond its reach, and the smart path answered
C12_Witness ==
    /\ foodReq.path = "smart"
    /\ Len(foodReq.snake) >= 5
    /\ FreeCells(foodReq.grid, foodReq.snake)
          \ JoinedToHead(foodReq.grid, foodReq.snake) /= {}

(***************************************************************************)
(* backends/pong.py: ai_target, up to the end of its reflection loop       *)
(***************************************************************************)
\* Floats are kept in tenths between -MaxFloat and MaxFloat; a result beyond
\* that is the bound itself, as a float that has run out of range or of
\* precision no longer moves.
Float(v10) == Max(-MaxFloat, Min(MaxFloat, v10))

\* a + b and a - b on such floats: one at the bound stays there
FloatSum(a, b) ==
    IF a \in {MaxFloat, -MaxFloat} THEN a
    ELSE IF b \in {MaxFloat, -MaxFloat} THEN b
    ELSE Float(a + b)

FloatDiff(a, b) == FloatSum(a, -b)

\* the numbers ai_target reads, each None or a whole number of units
PongNumbers(values) == {JNone} \cup { Json("int", 10 * n) : n \in values }

PongPayloads ==
    [ height : PongNumbers({-2, 2, 600}),
      width  : PongNumbers({40}),
      x      : PongNumbers({20}),
      y      : PongNumbers({-7, 9}),
      dx     : PongNumbers({-1}),
      dy     : PongNumbers({-1, 3}) ]

\* lines 64-74: the court, the ball and the first prediction; a product and
\* a quotient are kept to the tenth (exact for the numbers of PongPayloads)
Predict(p) ==
    LET height == PyFloat(OrElse(p.height, Json("int", 6000))).value
        width == PyFloat(OrElse(p.width, Json("int", 8000))).value
        bx == PyFloat(OrElse(p.x, Json("float", width \div 2))).value
        by == PyFloat(OrElse(p.y, Json("float", height \div 2))).value
        dx == PyFloat(OrElse(p.dx, Json("int", 10))).value
        dy == PyFloat(OrElse(p.dy, Json("int", 0))).value
        target_x == FloatDiff(width, 300)
        travel_time == Float((FloatDiff(target_x, bx) * 10) \div Max(10, Max(dx, -dx)))
    IN  [height |-> height,
         predicted |-> FloatSum(by, Float((dy * travel_time) \div 10))]

\* predicted < 0 or predicted > height
OutOfCourt(predicted, height) == predicted < 0 \/ predicted > height

\* -predicted if predicted < 0 else height - (predicted - height)
Reflect(predicted, height) ==
    IF predicted < 0 THEN Float(-predicted)
    ELSE FloatDiff(height, FloatDiff(predicted, height))

\* A request with numbers in its court and ball is about to be handled.
InitPong ==
    /\ StoreIdle
    /\ LimiterIdle
    /\ foodReq = NoFood
    /\ genReq = NoGen
    /\ scoreCall = NoScoreCall
    /\ subReq = NoSub
    /\ GamesIdle
    /\ \E p \in PongPayloads : pongReq = [NoPong EXCEPT !.pc = "called", !.payload = p]

\* ai_target(payload) is called and reaches its loop
AiTargetPredict ==
    /\ pongReq.pc = "called"
    /\ pongReq' = [pongReq EXCEPT !.pc = "loop",
                                  !.height = Predict(pongReq.payload).height,
                                  !.predicted = Predict(pongReq.payload).predicted]
    /\ UNCHANGED << storeVars, limiterVars, foodReq, genReq, submitVars, gameVars >>

\* one turn of the while loop
AiTargetReflect ==
    /\ pongReq.pc = "loop"
    /\ OutOfCourt(pongReq.predicted, pongReq.height)
    /\ pongReq' = [pongReq EXCEPT
                      !.predicted = Reflect(pongReq.predicted, pongReq.height)]
    /\ UNCHANGED << storeVars, limiterVars, foodReq, genReq, submitVars, gameVars >>

\* the loop's condition is false: ai_target goes on to its answer
AiTargetAnswer ==
    /\ pongReq.pc = "loop"
    /\ ~OutOfCourt(pongReq.predicted, pongReq.height)
    /\ pongReq' = [pongReq EXCEPT !.pc = "done"]
    /\ UNCHANGED << storeVars, limiterVars, foodReq, genReq, submitVars, gameVars >>

NextPong == AiTargetPredict \/ AiTargetReflect \/ AiTargetAnswer

\* the handler's thread keeps running
SpecPong == InitPong /\ [][NextPong]_vars /\ WF_vars(NextPong)

(***************************************************************************)
(* Properties of ai_target                                                 *)
(***************************************************************************)
\* C14: for all numeric ball and court values, positive or negative, the
\* wall-reflection loop of ai_target ends with the predicted position inside
\* [0, height].
C14_AiTargetTerminates ==
    <>(/\ pongReq.pc = "done"
       /\ 0 <= pongReq.predicted
       /\ pongReq.predicted <= pongReq.height)

(***************************************************************************)
(* server.py, lines 524-618: the generation endpoints                      *)
(***************************************************************************)
\* The values a field of the body is given.  The list with d = 1 is a snake
\* holding a segment whose x is not a number.
JsonValues ==
    { JNone, Json("int", 0), Json("int", -30), Json("int", 50),
      Json("float", 25), Json("inf", 0), Json("bool", 10), Json("empty", 0),
      Json("numstr", 120), Json("decstr", 15), Json("str", 0),
      Json("list", 0), Json("list", 1), Json("dict", 0) }

\* the keys the handlers read; "court.height" is the key height of the object
\* under court
Containers == {"ball", "court", "ai"}

Nested ==
    { <<"court", "court.height">>, <<"court", "court.width">>,
      <<"ball", "ball.x">>, <<"ball", "ball.y">>, <<"ball", "ball.dx">>,
      <<"ball", "ball.dy">>, <<"ai", "ai.height">> }

Fields ==
    {"wave", "width", "height", "grid", "snake", "level", "distance",
     "ground_y", "rows", "cols", "mines", "safe_row", "safe_col"}
        \cup Containers \cup { n[2] : n \in Nested }

\* the object {f: v} (with f inside its container, for a nested key)
OneField(f, v) ==
    [g \in Fields |->
        IF g = f THEN v
        ELSE IF << g, f >> \in Nested THEN Json("dict", 1)
        ELSE JNone]

\* request.get_json(silent=True): None for a body that does not parse, else
\* the value; kind is what the value is
Bodies ==
    { [kind |-> "unparseable", fields |-> OneField("wave", JNone)],
      [kind |-> "array", fields |-> OneField("wave", JNone)],
      [kind |-> "empty array", fields |-> OneField("wave", JNone)] }
        \cup { [kind |-> "object", fields |-> OneField(f, v)] :
                  f \in Fields, v \in JsonValues }

\* payload = request.get_json(silent=True) or {}: the fields of an object, no
\* field for a body that does not parse or is falsy
PayloadOf(body) ==
    IF body.kind = "object" THEN body.fields ELSE OneField("wave", JNone)

\* the exception the conversions of a handler raise, first one first: convs is
\* the sequence of <<conversion, key, default in tenths>> in source order
RECURSIVE FirstError(_, _)
FirstError(payload, convs) ==
    IF convs = <<>> THEN None
    ELSE LET c == Head(convs)
             x == OrElse(payload[c[2]], Json("int", c[3]))
             r == IF c[1] = "int" THEN PyInt(x) ELSE PyFloat(x)
         IN  IF r.error /= None THEN r.error
             ELSE FirstError(payload, Tail(convs))

\* list(snake) and _segment_xy on each segment (snake.py, lines 22-27, 101)
SnakeError(x) ==
    LET snake_body == OrElse(x, Json("list", 0))
    IN  IF snake_body.type \in {"int", "float", "bool", "inf"} THEN "TypeError"
        ELSE IF snake_body.type = "list" /\ snake_body.d = 1 THEN "ValueError"
        ELSE None

\* x.get(...) on `payload.get(key) or {}`
GetError(x) == IF Falsy(x) \/ x.type = "dict" THEN None ELSE "AttributeError"

\* the first exception of ai_target's lines 59-70
PongError(payload) ==
    IF \E c \in Containers : GetError(payload[c]) /= None THEN "AttributeError"
    ELSE FirstError(payload,
            << <<"float", "court.height", 6000>>, <<"float", "court.width", 8000>>,
               <<"float", "ball.x", 4000>>, <<"float", "ball.y", 3000>>,
               <<"float", "ball.dx", 10>>, <<"float", "ball.dy", 0>>,
               <<"float", "ai.height", 960>> >>)

\* a handler has run: an exception that escapes it is answered 500 by Flask
Answered(endpoint, error) ==
    [genReq EXCEPT !.pc = "done", !.endpoint = endpoint, !.error = error,
                   !.status = IF error = None THEN 200 ELSE 500]

\* what a handler does with the body: AttributeError on payload.get for a body
\* that is a non-empty array, else its conversions
HandlerError(error) ==
    IF genReq.body.kind = "array" THEN "AttributeError" ELSE error

\* A request with some body is about to reach one of the endpoints (and is
\* within its rate limit).
InitGenerate ==
    /\ StoreIdle
    /\ LimiterIdle
    /\ foodReq = NoFood
    /\ pongReq = NoPong
    /\ scoreCall = NoScoreCall
    /\ subReq = NoSub
    /\ GamesIdle
    /\ \E body \in Bodies : genReq = [NoGen EXCEPT !.body = body]

\* POST /api/pong/ai-target: the answer comes once ai_target's loop has ended
pong_ai_target ==
    LET p == PayloadOf(genReq.body)
        error == HandlerError(PongError(p))
    IN  /\ genReq.pc = "idle"
        /\ IF error /= None
           THEN genReq' = Answered("pong", error) /\ UNCHANGED pongReq
           ELSE /\ genReq' = [genReq EXCEPT !.pc = "called", !.endpoint = "pong"]
                /\ pongReq' = [NoPong EXCEPT !.pc = "called", !.payload =
                                  [height |-> p["court.height"],
                                   width |-> p["court.width"],
                                   x |-> p["ball.x"], y |-> p["ball.y"],
                                   dx |-> p["ball.dx"], dy |-> p["ball.dy"]]]
        /\ UNCHANGED << storeVars, limiterVars, foodReq, submitVars, gameVars >>

\* POST /api/space/wave
space_wave ==
    /\ genReq.pc = "idle"
    /\ genReq' = Answered("space", HandlerError(FirstError(PayloadOf(genReq.body),
                    << <<"int", "wave", 10>>, <<"float", "width", 9000>>,
                       <<"float", "height", 6000>> >>)))
    /\ UNCHANGED << storeVars, limiterVars, foodReq, pongReq, submitVars, gameVars >>

\* POST /api/snake/food
snake_food ==
    LET grid == FirstError(PayloadOf(genReq.body), << <<"int", "grid", 160>> >>)
    IN  /\ genReq.pc = "idle"
        /\ genReq' = Answered("snake", HandlerError(
                        IF grid /= None THEN grid
                        ELSE SnakeError(PayloadOf(genReq.body)["snake"])))
        /\ UNCHANGED << storeVars, limiterVars, foodReq, pongReq, submitVars, gameVars >>

\* POST /api/breakout/level
breakout_level ==
    /\ genReq.pc = "idle"
    /\ genReq' = Answered("breakout", HandlerError(FirstError(PayloadOf(genReq.body),
                    << <<"int", "level", 10>>, <<"float", "width", 9000>> >>)))
    /\ UNCHANGED << storeVars, limiterVars, foodReq, pongReq, submitVars, gameVars >>

\* geometry_dash.pattern, line 462: chunk = int(dist // 150), of a distance
\* too large
ChunkError(distance) == IF distance.type = "inf" THEN "ValueError" ELSE None

\* POST /api/geometry/pattern
geometry_pattern ==
    LET parse == FirstError(PayloadOf(genReq.body),
                    << <<"float", "distance", 0>>, <<"float", "ground_y", 5400>>,
                       <<"float", "width", 9600>> >>)
    IN  /\ genReq.pc = "idle"
        /\ genReq' = Answered("geometry", HandlerError(
                        IF parse /= None THEN parse
                        ELSE ChunkError(PayloadOf(genReq.body)["distance"])))
    /\ UNCHANGED << storeVars, limiterVars, foodReq, pongReq, submitVars, gameVars >>

\* POST /api/minesweeper/board
minesweeper_board ==
    /\ genReq.pc = "idle"
    /\ genReq' = Answered("minesweeper", HandlerError(FirstError(PayloadOf(genReq.body),
                    << <<"int", "rows", 90>>, <<"int", "cols", 90>>,
                       <<"int", "mines", 100>>, <<"int", "safe_row", 0>>,
                       <<"int", "safe_col", 0>> >>)))
    /\ UNCHANGED << storeVars, limiterVars, foodReq, pongReq, submitVars, gameVars >>

\* POST /api/tetris/config: str(...) of any value
tetris_config ==
    /\ genReq.pc = "idle"
    /\ genReq' = Answered("tetris", HandlerError(None))
    /\ UNCHANGED << storeVars, limiterVars, foodReq, pongReq, submitVars, gameVars >>

NextGenerate ==
    \/ pong_ai_target
    \/ space_wave
    \/ snake_food
    \/ breakout_level
    \/ geometry_pattern
    \/ minesweeper_board
    \/ tetris_config
    \/ AiTargetPredict
    \/ AiTargetReflect
    \/ AiTargetAnswer

SpecGenerate == InitGenerate /\ [][NextGenerate]_vars

(***************************************************************************)
(* Properties of the generation endpoints                                  *)
(***************************************************************************)
\* C13: whatever the body's numeric fields hold (nothing, null, zero, a
\* negative number, something that is not a number), a generation endpoint
\* answers 200 and no exception escapes its handler.
C13_GeneratorsNeverFail ==
    genReq.pc = "done" => genReq.status = 200 /\ genReq.error = None

(***************************************************************************)
(* server.py, lines 73-76 and 267-279: validate_score                      *)
(***************************************************************************)
MAX_PLAYER_NAME_LENGTH == 32
MIN_PLAYER_NAME_LENGTH == 1
MAX_SCORE_VALUE == 999999999
MIN_SCORE_VALUE == 0

\* what validate_score returns, (ok, message, value), or the exception that
\* escapes it
Returned(ok, message, value) ==
    [raised |-> None, ok |-> ok, message |-> message, value |-> value]

Escaped(error) == [raised |-> error, ok |-> FALSE, message |-> "", value |-> 0]

\* a variant with no upper limit
validate_score_unbounded(score) ==
    LET score_int == PyInt(score)
    IN  IF score_int.error \in {"TypeError", "ValueError"}
        THEN Returned(FALSE, "Score must be a number", 0)
        ELSE IF score_int.error /= None THEN Escaped(score_int.error)
        ELSE IF score_int.value < MIN_SCORE_VALUE
        THEN Returned(FALSE, "Score must be at least 0", 0)
        ELSE Returned(TRUE, "", score_int.value)

validate_score(score) ==
    LET score_int == PyInt(score)
    IN  IF score_int.error \in {"TypeError", "ValueError"}
        THEN Returned(FALSE, "Score must be a number", 0)
        ELSE IF score_int.error /= None THEN Escaped(score_int.error)
        ELSE IF score_int.value < MIN_SCORE_VALUE
        THEN Returned(FALSE, "Score must be at least 0", 0)
        ELSE IF score_int.value > MAX_SCORE_VALUE
        THEN Returned(FALSE, "Score must be at most 999999999", 0)
        ELSE Returned(TRUE, "", score_int.value)

\* The numbers validate_score is tried on: around zero, 100 and the limit,
\* whole or with a half.
ScoreWholes ==
    { -2, -1, 0, 1, 2, 100, MAX_SCORE_VALUE - 1, MAX_SCORE_VALUE,
      MAX_SCORE_VALUE + 1, MAX_SCORE_VALUE + 2 }

Halves(n) == IF n > 0 THEN {0, 5} ELSE IF n < 0 THEN {0, -5} ELSE {-5, 0, 5}

ScoreValues ==
    { JsonLarge(type, n, 0) : type \in {"int", "numstr"}, n \in ScoreWholes }
        \cup UNION { { JsonLarge(type, n, d) : type \in {"float", "decstr"},
                                               d \in Halves(n) } : n \in ScoreWholes }
        \cup { JNone, Json("bool", 0), Json("bool", 10), Json("empty", 0),
               Json("str", 0), Json("inf", 0), Json("list", 0), Json("dict", 0) }

\* validate_score is about to be called on some value
InitValidate ==
    /\ StoreIdle
    /\ LimiterIdle
    /\ foodReq = NoFood
    /\ pongReq = NoPong
    /\ genReq = NoGen
    /\ subReq = NoSub
    /\ GamesIdle
    /\ \E score \in ScoreValues : scoreCall = [NoScoreCall EXCEPT !.score = score]

ValidateScore ==
    /\ scoreCall.pc = "idle"
    /\ scoreCall' = [scoreCall EXCEPT !.pc = "done",
                                      !.result = validate_score(scoreCall.score)]
    /\ UNCHANGED << storeVars, limiterVars, genVars, subReq, gameVars >>

NextValidate == ValidateScore

SpecValidate == InitValidate /\ [][NextValidate]_vars

(***************************************************************************)
(* Properties of validate_score                                            *)
(***************************************************************************)
\* whether v is a number, or spells one, that int() accepts (it then gives v.n,
\* what is after the point being dropped)
ConvertsToInteger(v) == v.type \in {"int", "float", "bool", "numstr"}

\* C15: validate_score(v) succeeds exactly when v converts to an integer n with
\* 0 <= n <= 999,999,999 and then returns n, a fraction being dropped; for -1,
\* 1,000,000,000, a string that is no number and None it fails and returns 0
\* with a message.
C15_ValidateScore ==
    scoreCall.pc = "done" =>
        LET v == scoreCall.score
            r == scoreCall.result
        IN  /\ r.ok <=> (ConvertsToInteger(v) /\ 0 <= v.n /\ v.n <= 999999999)
            /\ r.ok => r.raised = None /\ r.value = v.n
            /\ v \in { JsonLarge("int", -1, 0), JsonLarge("int", 1000000000, 0),
                       Json("str", 0), JNone }
                  => r.raised = None /\ ~r.ok /\ r.value = 0 /\ r.message /= ""

\* 999,999,999.5 has been accepted as 999,999,999
C15_Witness ==
    /\ scoreCall.pc = "done"
    /\ scoreCall.score = JsonLarge("float", 999999999, 5)
    /\ scoreCall.result.ok
    /\ scoreCall.result.value = 999999999

(***************************************************************************)
(* server.py, lines 224-264: sanitize_string and the validators.  A string *)
(* is a sequence of characters; "DEL" stands for the one character \x7f.   *)
(***************************************************************************)
\* the characters of [\x00-\x1f\x7f-\x9f] that are tried
Control == {"\t", "DEL"}

\* html.escape on one character
Escape(c) ==
    CASE c = "&" -> <<"&", "a", "m", "p", ";">>
      [] c = "<" -> <<"&", "l", "t", ";">>
      [] c = ">" -> <<"&", "g", "t", ";">>
      [] c = "\"" -> <<"&", "q", "u", "o", "t", ";">>
      [] c = "'" -> <<"&", "#", "x", "2", "7", ";">>
      [] OTHER -> <<c>>

\* a variant that escapes nothing
RECURSIVE Unescaped(_)
Unescaped(s) == IF s = <<>> THEN <<>> ELSE <<Head(s)>> \o Unescaped(Tail(s))

\* html.escape(s)
RECURSIVE HtmlEscape(_)
HtmlEscape(s) == IF s = <<>> THEN <<>> ELSE Escape(Head(s)) \o HtmlEscape(Tail(s))

\* re.sub(r"[\x00-\x1f\x7f-\x9f]", "", s)
RemoveControl(s) == SelectSeq(s, LAMBDA c : c \notin Control)

\* s[:max_length]
Take(s, max_length) == SubSeq(s, 1, Min(max_length, Len(s)))

\* str.lower(), on the capitals that are tried
LowerChar(c) ==
    CASE c = "A" -> "a" [] c = "D" -> "d" [] c = "H" -> "h"
      [] c = "R" -> "r" [] c = "S" -> "s" [] OTHER -> c

RECURSIVE Lower(_)
Lower(s) == IF s = <<>> THEN <<>> ELSE <<LowerChar(Head(s))>> \o Lower(Tail(s))

\* the string the characters spell (to look it up in VALID_GAMES)
RECURSIVE Join(_)
Join(s) == IF s = <<>> THEN "" ELSE Head(s) \o Join(Tail(s))

\* A value under a key that is read as text: its type, and the characters of
\* str(value).  None is also a missing key.
Text(type, text) == [type |-> type, text |-> text]
TNone == Text("none", <<>>)
Str(text) == Text("str", text)

\* `x or default` on such a value
TextOr(x, default) ==
    IF \/ x.type = "none"
       \/ x.type = "str" /\ x.text = <<>>
       \/ x.type = "int" /\ x.text = <<"0">>
    THEN default ELSE x

sanitize_string(value, max_length) ==
    IF value.type = "none" THEN <<>>
    ELSE Take(RemoveControl(HtmlEscape(Strip(value.text))), max_length)

\* each validator gives the error message, or None for (True, "")
validate_player_name(name) ==
    IF name = <<>> THEN "Player name is required"
    ELSE IF Len(name) < MIN_PLAYER_NAME_LENGTH
    THEN "Player name must be at least 1 character"
    ELSE IF Len(name) > MAX_PLAYER_NAME_LENGTH
    THEN "Player name must be at most 32 characters"
    ELSE IF Strip(name) = <<>> THEN "Player name cannot be only whitespace"
    ELSE None

validate_game(game) ==
    IF game = "" THEN "Game name is required"
    ELSE IF game \notin VALID_GAMES THEN "Invalid game. Must be one of: "
    ELSE None

VALID_DIFFICULTIES == {"easy", "medium", "hard", "unknown"}

\* a variant that accepts every difficulty
any_difficulty(difficulty) == None

validate_difficulty(difficulty) ==
    IF difficulty /= "" /\ difficulty \notin VALID_DIFFICULTIES
    THEN "Invalid difficulty. Must be one of: "
    ELSE None

\* ', '.join(sorted(VALID_GAMES)) in validate_game's message: the games named
NamedIn(error) == IF error = "Invalid game. Must be one of: " THEN VALID_GAMES ELSE {}

(***************************************************************************)
(* server.py, lines 394-456 and 495-501: score submission and leaderboard  *)
(***************************************************************************)
\* what a request is answered: the status, the error field and the games it
\* names, the exception that escaped (answered 500), the entry, and the
\* leaderboards as the request leaves them
Answer(status, error, made, scores) ==
    [status |-> status, error |-> error, names |-> NamedIn(error),
     raised |-> None, entry |-> made, scores |-> scores]

Uncaught(error, scores) ==
    [status |-> 500, error |-> None, names |-> {}, raised |-> error,
     entry |-> NoEntry, scores |-> scores]

\* handle_score_submission(payload) on the leaderboards `scores`
handle_score_submission(payload, scores, now) ==
    LET game == Join(Lower(sanitize_string(TextOr(payload.game, payload.game_name), 50)))
        player == sanitize_string(TextOr(payload.player, payload.name),
                                  MAX_PLAYER_NAME_LENGTH)
        difficulty == Join(Lower(sanitize_string(
                          TextOr(payload.difficulty, Str(<<"u", "n", "k", "n", "o", "w", "n">>)), 20)))
        checked == validate_score(payload.score)
        score_value == JsonLarge("int", checked.value, 0)
    IN  IF validate_game(game) /= None
        THEN Answer(400, validate_game(game), NoEntry, scores)
        ELSE IF validate_player_name(player) /= None
        THEN Answer(400, validate_player_name(player), NoEntry, scores)
        ELSE IF validate_difficulty(difficulty) /= None
        THEN Answer(400, validate_difficulty(difficulty), NoEntry, scores)
        ELSE IF checked.raised /= None THEN Uncaught(checked.raised, scores)
        ELSE IF ~checked.ok THEN Answer(400, checked.message, NoEntry, scores)
        ELSE IF PlayerInvalid(player) \/ ScoreInvalid(score_value)
        THEN Answer(400, "Player name is required", NoEntry, scores)
        ELSE LET made == MakeEntry(player, score_value, difficulty, now)
             IN  Answer(201, None, made, AddTo(scores, game, made))

\* handle_leaderboard(game)
handle_leaderboard(game, scores) ==
    LET name == Join(Lower(sanitize_string(Str(game), 50)))
    IN  IF validate_game(name) /= None
        THEN Answer(400, validate_game(name), NoEntry, scores)
        ELSE Answer(200, None, NoEntry, scores)

\* requests answered in one behaviour
MaxSubmits == 2

\* k times the letter A
Pad(k) == [i \in 1..k |-> "A"]

\* Names around the maximum length: a run of letters, before it nothing or a
\* space, after it up to two characters of which some are escaped, removed
\* or stripped.
NameEnds ==
    LET alphabet == {"A", " ", "<", "&", "DEL"}
    IN  {<<>>, <<">">>, <<"<", ">">>}
            \cup { <<a>> : a \in alphabet }
            \cup { <<a, b>> : a \in alphabet, b \in alphabet }

PlayerNames ==
    { start \o Pad(k) \o end :
        start \in {<<>>, <<" ">>},
        k \in {0, MAX_PLAYER_NAME_LENGTH - 1, MAX_PLAYER_NAME_LENGTH,
               MAX_PLAYER_NAME_LENGTH + 1},
        end \in NameEnds }

PlayerValues ==
    { Str(name) : name \in PlayerNames }
        \cup { TNone, Text("int", <<"7">>), Text("int", <<"0">>),
               Text("list", <<"[", "1", "]">>) }

GameNames ==
    { <<>>, <<" ">>, <<"s", "n", "a", "k", "e">>, <<" ", "S", "n", "a", "k", "e">>,
      <<"s", "n", "a", "DEL", "k", "e">>,
      <<"m", "i", "n", "e", "s", "w", "e", "e", "p", "e", "r">>,
      <<"c", "h", "e", "s", "s">>, <<"<", "b", ">">> }

DifficultyNames ==
    { <<>>, <<" ">>, <<"e", "a", "s", "y">>, <<"m", "e", "d", "i", "u", "m">>,
      <<"H", "A", "R", "D">>, <<"u", "n", "k", "n", "o", "w", "n">>,
      <<"i", "n", "s", "a", "n", "e">> }

\* the scores submitted: -1, 0, 100.5, the limit and the next number, strings,
\* and values that are no number
SubmitScores ==
    { JsonLarge("int", -1, 0), JsonLarge("int", 0, 0), JsonLarge("float", 100, 5),
      JsonLarge("int", MAX_SCORE_VALUE, 0), JsonLarge("int", MAX_SCORE_VALUE + 1, 0),
      JsonLarge("numstr", 12, 0), JsonLarge("decstr", 1, 5), Json("str", 0),
      JNone, Json("bool", 10), Json("inf", 0), Json("list", 0), Json("dict", 0) }

\* a well-formed submission, and the bodies tried: it with one key changed
GoodPayload ==
    [game |-> Str(<<"s", "n", "a", "k", "e">>), game_name |-> TNone,
     player |-> Str(<<"A">>), name |-> TNone, difficulty |-> TNone,
     score |-> Json("int", 10)]

Payloads ==
    { [GoodPayload EXCEPT !.player = p] : p \in PlayerValues }
      \cup { [GoodPayload EXCEPT !.player = TNone, !.name = Str(<<"B">>)] }
      \cup { [GoodPayload EXCEPT !.game = Str(g)] : g \in GameNames }
      \cup { [GoodPayload EXCEPT !.game = TNone, !.game_name = g] :
                g \in {TNone, Str(<<"s", "n", "a", "k", "e">>)} }
      \cup { [GoodPayload EXCEPT !.game = Text("int", <<"7">>)] }
      \cup { [GoodPayload EXCEPT !.difficulty = Str(d)] : d \in DifficultyNames }
      \cup { [GoodPayload EXCEPT !.difficulty = Text("int", <<"7">>)] }
      \cup { [GoodPayload EXCEPT !.score = s] : s \in SubmitScores }
      \cup { [GoodPayload EXCEPT !.game = Str(<<"m", "i", "n", "e", "s", "w", "e", "e", "p", "e", "r">>),
                                 !.score = s] :
                s \in {Json("int", 10), Json("int", 20)} }

\* request.get_json(silent=True) or {}: no key for a body that does not parse,
\* or is falsy
EmptyPayload ==
    [game |-> TNone, game_name |-> TNone, player |-> TNone, name |-> TNone,
     difficulty |-> TNone, score |-> JNone]

SubmitBodies ==
    { [kind |-> "object", payload |-> p] : p \in Payloads }
      \cup { [kind |-> k, payload |-> EmptyPayload] :
                k \in {"unparseable", "array", "string"} }

\* The store holds no score and no request has been made.
InitSubmit ==
    /\ StoreIdle
    /\ LimiterIdle
    /\ foodReq = NoFood
    /\ pongReq = NoPong
    /\ genReq = NoGen
    /\ scoreCall = NoScoreCall
    /\ subReq = NoSub
    /\ GamesIdle

\* the request after subReq is answered with `answer`
Served(method, body, answer) ==
    [served |-> subReq.served + 1, pc |-> "done", method |-> method,
     body |-> body, answer |-> answer, before |-> disk.path.map]

\* POST /score and /api/score, within the rate limit: payload.get of a body
\* that is a non-empty array or string raises
api_score ==
    /\ subReq.served < MaxSubmits
    /\ \E body \in SubmitBodies :
         LET answer == IF body.kind \in {"array", "string"}
                       THEN Uncaught("AttributeError", disk.path.map)
                       ELSE handle_score_submission(body.payload, disk.path.map, stamp)
         IN  /\ subReq' = Served("POST", body, answer)
             /\ disk' = [disk EXCEPT !.path = OkFile(answer.scores)]
             /\ stamp' = IF answer.status = 201 THEN stamp + 1 ELSE stamp
    /\ UNCHANGED << DEFAULT_SCORES, lock, boot, pc, call, entry, data, aliased,
                    recMap, result, adds, tampers, crashes, serial, added,
                    limiterVars, genVars, scoreCall, gameVars >>

\* POST /score and /api/score beyond the rate limit: rate_limit answers and
\* the handler is not called (nothing reads the body)
ScoreLimited ==
    /\ subReq.served < MaxSubmits
    /\ \E body \in { b \in SubmitBodies : b.kind /= "object" \/ b.payload = GoodPayload } :
         subReq' = Served("POST", body,
                      Answer(429, "rate_limit_exceeded", NoEntry, disk.path.map))
    /\ UNCHANGED << storeVars, limiterVars, genVars, scoreCall, gameVars >>

\* GET /leaderboard/<game> and /api/leaderboard/<game>
api_leaderboard ==
    /\ subReq.served < MaxSubmits
    /\ \E game \in GameNames \ {<<>>} :
         subReq' = Served("GET", [kind |-> "path", game |-> game],
                          handle_leaderboard(game, disk.path.map))
    /\ UNCHANGED << storeVars, limiterVars, genVars, scoreCall, gameVars >>

NextSubmit == api_score \/ ScoreLimited \/ api_leaderboard

SpecSubmit == InitSubmit /\ [][NextSubmit]_vars

(***************************************************************************)
(* Properties of score submission                                          *)
(***************************************************************************)
\* every entry the scores file holds
Persisted == UNION { Range(disk.path.map[g]) : g \in DOMAIN disk.path.map }

\* a POST that reached the handler has been answered
Handled ==
    /\ subReq.pc = "done"
    /\ subReq.method = "POST"
    /\ subReq.answer.status /= 429

\* the player the last request named, as text
Submitted == TextOr(subReq.body.payload.player, subReq.body.payload.name)

HasMarkup(s) == \E i \in 1..Len(s) : s[i] \in {"<", ">"}

\* C16: whatever player string is submitted and accepted, the player that is
\* stored and returned holds no '<' and no '>', also when the sanitized name
\* was cut at the maximum length.
C16_NoStoredMarkup ==
    /\ \A e \in Persisted : ~HasMarkup(e.player)
    /\ Handled /\ subReq.answer.status = 201 => ~HasMarkup(subReq.answer.entry.player)

\* a name with a '<' whose escaped form is longer than the maximum has been
\* accepted and stored cut
C16_Witness ==
    /\ Handled
    /\ subReq.answer.status = 201
    /\ HasMarkup(Submitted.text)
    /\ Len(HtmlEscape(Strip(Submitted.text))) > MAX_PLAYER_NAME_LENGTH
    /\ subReq.answer.entry \in Persisted

\* C17: after any sequence of submissions every persisted entry has a player
\* of 1 to 32 characters that is not only whitespace, an integer score from 0
\* to 999,999,999 and a difficulty of easy, medium, hard or unknown, under a
\* game of the closed set; an empty or absent difficulty is stored as unknown.
C17_StoredEntrySchema ==
    /\ DOMAIN disk.path.map \subseteq VALID_GAMES
    /\ \A e \in Persisted :
          /\ Len(e.player) \in 1..32
          /\ \E i \in 1..Len(e.player) : e.player[i] \notin Whitespace
          /\ e.score \in 0..999999999
          /\ e.difficulty \in {"easy", "medium", "hard", "unknown"}
    /\ /\ Handled
       /\ subReq.answer.status = 201
       /\ subReq.body.payload.difficulty \in {TNone, Str(<<>>)}
       => subReq.answer.entry.difficulty = "unknown"

\* two submissions have been stored, the last with an empty difficulty, and
\* one with a difficulty in capitals
C17_Witness ==
    /\ Handled
    /\ subReq.answer.status = 201
    /\ subReq.body.payload.difficulty = Str(<<>>)
    /\ subReq.answer.entry \in Persisted
    /\ \E e \in Persisted : e.difficulty = "hard"

\* C18: a submission whose player name has more than 32 characters after
\* trimming is answered 400 and no entry is stored.
C18_OverlongNameRejected ==
    /\ Handled
    /\ subReq.body.kind = "object"
    /\ Submitted.type = "str"
    /\ Len(Strip(Submitted.text)) > 32
    => /\ subReq.answer.status = 400
       /\ disk.path.map = subReq.before

\* C19: every POST to the score endpoint, whatever its body, is answered 201,
\* 400 or 429 and no exception escapes the handler; a body that does not parse
\* is an empty payload and answered 400.
C19_NoRequestFatal ==
    subReq.pc = "done" /\ subReq.method = "POST" =>
        /\ subReq.answer.status \in {201, 400, 429}
        /\ subReq.answer.raised = None
        /\ subReq.body.kind = "unparseable" /\ subReq.answer.status /= 429
              => subReq.answer.status = 400

\* what the submission names, as the handler comes to read it
NamedGame(payload) ==
    Join(Lower(sanitize_string(TextOr(payload.game, payload.game_name), 50)))

NamedDifficulty(payload) ==
    Join(Lower(sanitize_string(TextOr(payload.difficulty, Str(<<"u", "n", "k", "n", "o", "w", "n">>)), 20)))

\* a game missing or outside the closed set, a player missing, a difficulty
\* outside the enum, a score that is no integer from 0 to 999,999,999
FailsValidation(payload) ==
    \/ NamedGame(payload) \notin VALID_GAMES
    \/ TextOr(payload.player, payload.name) \in {TNone, Str(<<>>)}
    \/ NamedDifficulty(payload) \notin {"", "easy", "medium", "hard", "unknown"}
    \/ ~(/\ ConvertsToInteger(payload.score)
         /\ 0 <= payload.score.n
         /\ payload.score.n <= 999999999)

\* C20: a submission with a game missing or outside the closed set, a missing
\* player, a difficulty outside the enum or a score that is no integer in range
\* is answered 400 with an error and leaves every leaderboard as it was; GET
\* /leaderboard/<game> for a name outside the closed set is answered 400 with
\* an error naming the valid games (a blank name: 400, "Game name is required").
C20_ValidationFailureChangesNothing ==
    /\ Handled /\ subReq.body.kind = "object" /\ FailsValidation(subReq.body.payload)
          => /\ subReq.answer.status = 400
             /\ subReq.answer.error /= None
             /\ disk.path.map = subReq.before
    /\ /\ subReq.pc = "done"
       /\ subReq.method = "GET"
       /\ Join(Lower(sanitize_string(Str(subReq.body.game), 50))) \notin VALID_GAMES
       => /\ subReq.answer.status = 400
          /\ subReq.answer.error /= None
          /\ Strip(subReq.body.game) /= <<>> => subReq.answer.names = VALID_GAMES
          /\ disk.path.map = subReq.before

(***************************************************************************)
(* Properties of the store's reads                                         *)
(***************************************************************************)
\* thread t, inside leaderboard or games, takes the step
ReadStep(t) ==
    /\ call[t].op \in {"leaderboard", "games"}
    /\ pc'[t] /= pc[t]
    /\ crashes' = crashes

\* C21: while the scores file holds a well-formed mapping, leaderboard(game)
\* and games() write nothing and leave the persisted mapping as it is;
\* leaderboard(game) returns the empty list for a game that is unknown or has
\* no entries, and does not add the game to the mapping.
C21_ReadsAreReadOnly ==
    [][\A t \in Threads :
          /\ ReadStep(t) /\ pc[t] \in {"lock", "read", "done"} /\ disk.path.kind = "ok"
                => disk' = disk
          /\ ReadStep(t) /\ pc[t] = "read" /\ disk.path.kind = "ok"
                => /\ pc'[t] = "done"
                   /\ call[t].op = "games" => result'[t].map = disk.path.map
                   /\ call[t].op = "leaderboard" =>
                         /\ call[t].game \in DOMAIN disk.path.map
                               => result'[t].list = disk.path.map[call[t].game]
                         /\ call[t].game \notin DOMAIN disk.path.map
                               => /\ result'[t].list = <<>>
                                  /\ call[t].game \notin DOMAIN disk'.path.map]_vars

\* leaderboard has answered the empty list for a game the file does not hold,
\* while the file holds scores of another game
C21_Witness ==
    \E t \in Threads :
        /\ pc[t] = "done"
        /\ call[t].op = "leaderboard"
        /\ result[t].list = <<>>
        /\ disk.path.kind = "ok"
        /\ call[t].game \notin DOMAIN disk.path.map
        /\ \E g \in DOMAIN disk.path.map : disk.path.map[g] /= <<>>

(***************************************************************************)
(* backends/minesweeper.py: generate_board, up to `chosen` (the counts it  *)
(* goes on to compute are not part of the mines)                           *)
(***************************************************************************)
\* the arguments tried: boards of up to 2 x 3 cells, none for a size of 0 or
\* less; the safe cell inside the board, on its edge or outside it
BoardRows == {-1, 0, 1, 2}
BoardCols == {-1, 0, 1, 2, 3}
MineCounts == {-2, -1, 0, 1, 2, 3, 6}
SafeCells == { <<r, c>> : r \in -1..2, c \in -1..3 }

\* {(safe_r + dr, safe_c + dc) for dr in range(-1, 2) for dc in range(-1, 2)}
SafeZone(safe) == { <<safe[1] + dr, safe[2] + dc>> : dr \in -1..1, dc \in -1..1 }

\* [(r, c) for r in range(rows) for c in range(cols)]
RowMajor(rows, cols) ==
    IF rows <= 0 \/ cols <= 0 THEN <<>>
    ELSE <<>> \o [k \in 1..(rows * cols) |-> << (k - 1) \div cols, (k - 1) % cols >>]

\* a variant that leaves no cell out
AllPositions(rows, cols, safe) == RowMajor(rows, cols)

\* ... if (r, c) not in safe_zone
Positions(rows, cols, safe) ==
    SelectSeq(RowMajor(rows, cols), LAMBDA p : p \notin SafeZone(safe))

\* rng.shuffle(list): what it may leave
Shuffles(list) ==
    { <<>> \o [i \in 1..Len(list) |-> list[p[i]]] : p \in Permutations(1..Len(list)) }

\* list[:stop]; a negative stop counts from the end
Slice(list, stop) ==
    IF stop >= 0 THEN SubSeq(list, 1, Min(stop, Len(list)))
    ELSE SubSeq(list, 1, Max(0, Len(list) + stop))

\* positions[:min(len(positions), mines)]
Chosen(positions, mines) == Slice(positions, Min(Len(positions), mines))

\* generate_board is called with some arguments
InitMines ==
    /\ StoreIdle
    /\ LimiterIdle
    /\ foodReq = NoFood /\ pongReq = NoPong /\ genReq = NoGen
    /\ scoreCall = NoScoreCall /\ subReq = NoSub
    /\ choiceReq = NoChoice /\ tetris = NoTetris /\ sweeper = NoSweeper
    /\ routed = NoRouted
    /\ \E rows \in BoardRows, cols \in BoardCols, mines \in MineCounts, safe \in SafeCells :
          mineReq = [pc |-> "called", rows |-> rows, cols |-> cols, mines |-> mines,
                     safe |-> safe, positions |-> <<>>, chosen |-> <<>>]

\* lines 7-11: positions, shuffled
ShufflePositions ==
    /\ mineReq.pc = "called"
    /\ \E shuffled \in Shuffles(Positions(mineReq.rows, mineReq.cols, mineReq.safe)) :
          mineReq' = [mineReq EXCEPT !.pc = "shuffled", !.positions = shuffled]
    /\ UNCHANGED << storeVars, limiterVars, genVars, submitVars, choiceReq, tetris, sweeper, routed >>

\* line 12: chosen, the mines returned
ChooseMines ==
    /\ mineReq.pc = "shuffled"
    /\ mineReq' = [mineReq EXCEPT !.pc = "done",
                                  !.chosen = Chosen(mineReq.positions, mineReq.mines)]
    /\ UNCHANGED << storeVars, limiterVars, genVars, submitVars, choiceReq, tetris, sweeper, routed >>

NextMines == ShufflePositions \/ ChooseMines

SpecMines == InitMines /\ [][NextMines]_vars

(***************************************************************************)
(* Properties of generate_board                                            *)
(***************************************************************************)
\* the mines returned
Mines == { mineReq.chosen[i] : i \in 1..Len(mineReq.chosen) }

\* the cells of the board outside the safe cell and its neighbours
OutsideSafeZone ==
    { <<r, c>> \in (0..(mineReq.rows - 1)) \X (0..(mineReq.cols - 1)) :
         \/ r - mineReq.safe[1] \notin -1..1
         \/ c - mineReq.safe[2] \notin -1..1 }

\* C22: whatever rows, cols, mines and the safe cell are, no mine is on the
\* safe cell or on one of its up to 8 neighbours, and every mine is inside the
\* rows x cols grid.
C22_SafeFirstClick ==
    mineReq.pc = "done" => Mines \subseteq OutsideSafeZone

\* mines were laid on a board whose safe cell is inside it and has free cells
\* beyond its neighbours
C22_Witness ==
    /\ mineReq.pc = "done"
    /\ mineReq.safe[1] \in 0..(mineReq.rows - 1)
    /\ mineReq.safe[2] \in 0..(mineReq.cols - 1)
    /\ mineReq.chosen /= <<>>

\* C23: the mines returned are pairwise distinct, exactly as many as requested
\* whenever that many cells exist outside the safe zone, and never more than
\* requested.
C23_MineCount ==
    mineReq.pc = "done" =>
        /\ Cardinality(Mines) = Len(mineReq.chosen)
        /\ mineReq.mines <= Cardinality(OutsideSafeZone)
              => Len(mineReq.chosen) = mineReq.mines
        /\ Len(mineReq.chosen) <= mineReq.mines

(***************************************************************************)
(* server.py: the routes behind rate_limit.  One request at a time goes    *)
(* through the decorators of its route, outermost first, into the route's  *)
(* function.                                                               *)
(***************************************************************************)
\* RATE_LIMIT_MAX_REQUESTS (30) and RATE_LIMIT_MAX_REQUESTS_READ (100),
\* scaled down
ScoreLimit == 2
ReadLimit == 3
\* requests routed in one behaviour
MaxRouted == 3

\* @rate_limit(max_requests=m) on the function f
Decorated(f, m) == [f |-> f, max_requests |-> m]

\* the routes and the decorated functions a request to them runs through:
\* api_score is decorated and calls score, v1_snake_food is decorated and
\* calls snake_food, which are decorated themselves
Routes ==
    { [path |-> "/score", kind |-> "score",
       chain |-> << Decorated("score", ScoreLimit) >>],
      [path |-> "/api/score", kind |-> "score",
       chain |-> << Decorated("api_score", ScoreLimit), Decorated("score", ScoreLimit) >>],
      [path |-> "/api/v1/score", kind |-> "score",
       chain |-> << Decorated("v1_score", ScoreLimit) >>],
      [path |-> "/leaderboard/snake", kind |-> "read",
       chain |-> << Decorated("leaderboard", ReadLimit) >>],
      [path |-> "/api/snake/food", kind |-> "generate",
       chain |-> << Decorated("snake_food", ReadLimit) >>],
      [path |-> "/api/v1/snake/food", kind |-> "generate",
       chain |-> << Decorated("v1_snake_food", ReadLimit),
                    Decorated("snake_food", ReadLimit) >>] }

\* the bodies posted to a score route
RoutedPayloads == {GoodPayload, EmptyPayload}

\* a variant that records the time of a rejected request too
is_allowed_recording(list, max_requests, at) ==
    LET kept == Cleanup(list, at)
    IN  [allowed |-> Len(kept) < max_requests, remaining |-> 0,
         list |-> Append(kept, at)]

\* RateLimiter.is_allowed on the client's list at the instant `at`: the
\* answer, and the list it leaves
is_allowed(list, max_requests, at) ==
    LET kept == Cleanup(list, at)
        current_count == Len(kept)
    IN  IF current_count >= max_requests
        THEN [allowed |-> FALSE, remaining |-> 0, list |-> kept]
        ELSE [allowed |-> TRUE, remaining |-> max_requests - current_count - 1,
              list |-> Append(kept, at)]

\* The store holds no score, the limiter no timestamp.
InitRoutes ==
    /\ StoreIdle
    /\ LimiterIdle
    /\ GenIdle

\* a request of a client arrives at a route
Arrive ==
    /\ routed.pc \in {"idle", "done"}
    /\ routed.served < MaxRouted
    /\ \E route \in Routes, c \in Clients, payload \in RoutedPayloads :
          /\ route.kind /= "score" => payload = EmptyPayload
          /\ routed' = [routed EXCEPT !.served = @ + 1, !.pc = "wrapped",
                                      !.route = route, !.client = c,
                                      !.body = payload, !.chain = route.chain,
                                      !.invoked = <<>>, !.slots = 0, !.status = 0,
                                      !.at = clock]
    /\ UNCHANGED << storeVars, limiterVars, genVars, submitVars, mineReq, choiceReq,
                    tetris, sweeper >>

\* rate_limit.wrapped of the next decorated function: 429 when is_allowed says
\* no, else f is called
Wrapped ==
    LET c == routed.client
        next == Head(routed.chain)
        answer == is_allowed(requests[c], next.max_requests, clock)
    IN  /\ routed.pc = "wrapped"
        /\ requests' = [requests EXCEPT ![c] = answer.list]
        /\ IF ~answer.allowed
           THEN routed' = [routed EXCEPT !.pc = "done", !.status = 429, !.at = clock]
           ELSE routed' = [routed EXCEPT
                              !.pc = IF Len(routed.chain) = 1 THEN "body" ELSE "wrapped",
                              !.chain = Tail(@),
                              !.invoked = Append(@, next.f),
                              !.slots = @ + 1]
        /\ UNCHANGED << storeVars, clock, window, rlLock, rpc, req, served, acceptLog,
                        rejected, genVars, submitVars, mineReq, choiceReq, tetris,
                        sweeper >>

\* the body of the innermost function: score and v1_score hand the payload to
\* handle_score_submission, leaderboard reads, snake_food generates
RouteBody ==
    LET answer == handle_score_submission(routed.body, disk.path.map, stamp)
    IN  /\ routed.pc = "body"
        /\ IF routed.route.kind = "score"
           THEN /\ routed' = [routed EXCEPT
                                 !.pc = "done", !.status = answer.status, !.at = clock,
                                 !.scored = Append(@, [client |-> routed.client,
                                                       ts |-> clock])]
                /\ disk' = [disk EXCEPT !.path = OkFile(answer.scores)]
                /\ stamp' = IF answer.status = 201 THEN stamp + 1 ELSE stamp
           ELSE /\ routed' = [routed EXCEPT !.pc = "done", !.status = 200, !.at = clock]
                /\ UNCHANGED << disk, stamp >>
        /\ UNCHANGED << DEFAULT_SCORES, lock, boot, pc, call, entry, data, aliased,
                        recMap, result, adds, tampers, crashes, serial, added,
                        limiterVars, genVars, submitVars, mineReq, choiceReq, tetris,
                        sweeper >>

NextRoutes == Arrive \/ Wrapped \/ RouteBody \/ Tick

SpecRoutes == InitRoutes /\ [][NextRoutes]_vars

AcceptedScores(c, at) ==
    Cardinality({ i \in 1..Len(routed.scored) :
                     /\ routed.scored[i].client = c
                     /\ Fresh(routed.scored[i].ts, at - WindowTicks) })

\* C26: on every score route a submission is rejected with 429 only if the
\* same client already had the full budget of score submissions accepted
\* within the window; a request consumes exactly one slot of the budget, and
\* read or generation requests consume none of it.
C26_NoPrematureRejection ==
    routed.pc = "done" =>
        /\ routed.route.kind = "score" /\ routed.status = 429
              => AcceptedScores(routed.client, routed.at) >= ScoreLimit
        /\ routed.route.kind = "score" /\ routed.status /= 429 => routed.slots = 1
        /\ routed.route.kind /= "score" => routed.slots = 0

(***************************************************************************)
(* backends/geometry_dash.py: _weighted_choice.  A table is the sequence   *)
(* of its (key, weight) pairs in the order of the dict; weights and the    *)
(* draw are counted in halves.                                             *)
(***************************************************************************)
PatternKeys == {"platform_run", "spike_row", "gap_jump"}
PatternWeights == {-2, 0, 2, 4}

\* the tables tried: up to three distinct keys
WeightTables ==
    { t \in UNION { [1..n -> PatternKeys \X PatternWeights] : n \in 0..3 } :
         \A i, j \in 1..Len(t) : i /= j => t[i][1] /= t[j][1] }

\* a variant that takes the weight as it is
Unclamped(w) == w
\* max(0.0, float(w))
Clamped(w) == Max(0, w)

\* items, and sum(w for _, w in items[:n])
Items(weights) == [i \in 1..Len(weights) |-> << weights[i][1], Clamped(weights[i][2]) >>]

RECURSIVE SumOf(_, _)
SumOf(items, n) == IF n = 0 THEN 0 ELSE SumOf(items, n - 1) + items[n][2]

\* the loop over items from the i-th on, and the return after it
RECURSIVE PickFrom(_, _, _)
PickFrom(items, pick, i) ==
    IF i > Len(items) THEN items[Len(items)][1]
    ELSE IF pick - items[i][2] <= 0 THEN items[i][1]
         ELSE PickFrom(items, pick - items[i][2], i + 1)

\* _weighted_choice is called with a table
InitChoice ==
    /\ StoreIdle
    /\ LimiterIdle
    /\ foodReq = NoFood /\ pongReq = NoPong /\ genReq = NoGen
    /\ scoreCall = NoScoreCall /\ subReq = NoSub
    /\ mineReq = NoMines /\ tetris = NoTetris /\ sweeper = NoSweeper
    /\ routed = NoRouted
    /\ \E weights \in WeightTables :
          choiceReq = [NoChoice EXCEPT !.pc = "called", !.weights = weights]

\* total <= 0: rng.choice of the keys, or the default for an empty table
ChooseAny ==
    LET items == Items(choiceReq.weights)
    IN  /\ choiceReq.pc = "called"
        /\ SumOf(items, Len(items)) <= 0
        /\ \E key \in IF items = <<>> THEN {"platform_run"}
                      ELSE { items[i][1] : i \in 1..Len(items) } :
              choiceReq' = [choiceReq EXCEPT !.pc = "done", !.result = key]
        /\ UNCHANGED << storeVars, limiterVars, genVars, submitVars, mineReq, tetris,
                        sweeper, routed >>

\* pick = rng.random() * total, with random() in [0, 1)
DrawPick ==
    LET items == Items(choiceReq.weights)
        total == SumOf(items, Len(items))
    IN  /\ choiceReq.pc = "called"
        /\ total > 0
        /\ \E pick \in 0..(total - 1) :
              choiceReq' = [choiceReq EXCEPT !.pc = "picked", !.pick = pick]
        /\ UNCHANGED << storeVars, limiterVars, genVars, submitVars, mineReq, tetris,
                        sweeper, routed >>

\* the loop, and what is returned
ReturnKey ==
    /\ choiceReq.pc = "picked"
    /\ choiceReq' = [choiceReq EXCEPT
                        !.pc = "done",
                        !.result = PickFrom(Items(choiceReq.weights), choiceReq.pick, 1)]
    /\ UNCHANGED << storeVars, limiterVars, genVars, submitVars, mineReq, tetris,
                    sweeper, routed >>

NextChoice == ChooseAny \/ DrawPick \/ ReturnKey

SpecChoice == InitChoice /\ [][NextChoice]_vars

(***************************************************************************)
(* Properties of _weighted_choice                                          *)
(***************************************************************************)
\* the keys of the table, and its weights with a negative one counted as 0
TableKeys == { choiceReq.weights[i][1] : i \in 1..Len(choiceReq.weights) }
WeightAt(i) == IF choiceReq.weights[i][2] < 0 THEN 0 ELSE choiceReq.weights[i][2]

RECURSIVE WeightsUpTo(_)
WeightsUpTo(n) == IF n = 0 THEN 0 ELSE WeightsUpTo(n - 1) + WeightAt(n)

\* C25: for a total clamped weight above 0 and a draw in [0, total), the result
\* is the first key in table order at which the draw minus the weights so far
\* is at most 0; for a total of 0 it is one of the table's keys; for an empty
\* table it is 'platform_run'.  The result is always a key of a non-empty
\* table.
C25_WeightedChoice ==
    choiceReq.pc = "done" =>
        LET n == Len(choiceReq.weights)
            total == WeightsUpTo(n)
        IN  /\ total > 0 =>
                 \E i \in 1..n :
                    /\ choiceReq.result = choiceReq.weights[i][1]
                    /\ choiceReq.pick - WeightsUpTo(i) <= 0
                    /\ \A j \in 1..(i - 1) : choiceReq.pick - WeightsUpTo(j) > 0
            /\ n = 0 => choiceReq.result = "platform_run"
            /\ n > 0 => choiceReq.result \in TableKeys

\* a key after a negative weight and a weight of 0 was returned for a draw
\* strictly inside its share
C25_Witness ==
    /\ choiceReq.pc = "done"
    /\ Len(choiceReq.weights) = 3
    /\ choiceReq.weights[1][2] < 0
    /\ choiceReq.weights[2][2] > 0
    /\ choiceReq.result = choiceReq.weights[3][1]
    /\ choiceReq.pick > WeightsUpTo(2)

(***************************************************************************)
(* Retention in the score store                                            *)
(***************************************************************************)
\* a is a better score than b in game g
Better(a, b, g) ==
    IF g \in ASCENDING_GAMES THEN a.score < b.score ELSE a.score > b.score

\* C27: with the file never corrupted, after every successful add_score the
\* game's stored list is exactly the 15 best scores, by the game's direction,
\* of all scores ever added for the game; among equal scores the earlier
\* submission ranks first, so a new entry worse than or tied with the 15th
\* place of a full list is not stored, although the call succeeds and returns
\* the entry.
C27_RetentionKeepsBest ==
    [][\A t \in Threads :
          (pc[t] = "w_replace" /\ pc'[t] = "done" /\ call[t].op = "add") =>
             LET g == call[t].game
                 made == entry[t]
                 old == IF g \in DOMAIN disk.path.map THEN disk.path.map[g] ELSE <<>>
                 new == disk'.path.map[g]
                 all == added'[g]
             IN  /\ result'[t].error = None /\ result'[t].entry = made
                 /\ made \in all
                 /\ Range(new) \subseteq all
                 /\ Len(new) = Min(15, Cardinality(all))
                 /\ \A x \in all \ Range(new), y \in Range(new) : ~Better(x, y, g)
                 /\ \A i \in 1..(Len(new) - 1) : ~Better(new[i + 1], new[i], g)
                 /\ Len(old) = 15 /\ ~Better(made, old[15], g) => new = old
                 /\ \A i, j \in 1..Len(new) :
                       new[i] = made /\ j /= i /\ new[j].score = made.score => j < i
                 /\ \A i, j \in 1..Len(old) :
                       i < j /\ old[i] \in Range(new) /\ old[j] \in Range(new) =>
                          \E k, l \in 1..Len(new) :
                             k < l /\ new[k] = old[i] /\ new[l] = old[j]]_vars

\* an add_score has returned an entry that ties with the 15th place of the
\* full list and is not in it
C27_Witness ==
    \E t \in Threads :
        /\ pc[t] = "done" /\ call[t].op = "add" /\ result[t].error = None
        /\ disk.path.kind = "ok"
        /\ LET s == Stored[call[t].game]
           IN  /\ Len(s) = 15
               /\ result[t].entry \notin Range(s)
               /\ result[t].entry.score = s[15].score
               /\ s[1].score /= s[15].score

(***************************************************************************)
(* games_tetris.py: TetrisGame.  The grid is the list of its rows, top row *)
(* first; a piece is the list of the rows of its matrix.  current_rotation *)
(* is written and never read, and is left out.                             *)
(***************************************************************************)
TETROMINOES ==
    << << <<0, 0, 1>>, <<1, 1, 1>> >>,
       << <<1, 0, 0>>, <<1, 1, 1>> >>,
       << <<1, 1>>, <<1, 1>> >>,
       << <<0, 1, 1>>, <<1, 1, 0>> >>,
       << <<1, 1, 0>>, <<0, 1, 1>> >>,
       << <<1, 1, 1, 1>> >>,
       << <<1, 1, 1>>, <<0, 1, 0>> >> >>

TETRIS_COLORS ==
    << "#FF6B6B", "#4ECDC4", "#45B7D1", "#FFA07A", "#98D8C8", "#F7DC6F", "#BD7AF7" >>

\* LEVEL_CONFIG['TETRIS'][level], with the 10 x 20 grid scaled down
TetrisConfig == [gridWidth |-> 4, gridHeight |-> 4, scorePerLine |-> 100]

\* pieces spawned in one game
MaxPieces == 3

Pieces == { TETROMINOES[i] : i \in 1..Len(TETROMINOES) }

\* rotate_piece: rotated[j][n - 1 - i] = piece[i][j]
rotate_piece(piece) ==
    LET n == Len(piece)
        m == Len(piece[1])
    IN  [r \in 1..m |-> [c \in 1..n |-> piece[n - c + 1][r]]]

\* can_place(piece, x, y) on the grid of game g
can_place(g, piece, x, y) ==
    \A i \in 0..(Len(piece) - 1), j \in 0..(Len(piece[1]) - 1) :
        piece[i + 1][j + 1] /= 0 =>
            LET new_x == x + j
                new_y == y + i
            IN  IF new_x < 0 \/ new_x >= g.grid_width \/ new_y >= g.grid_height
                THEN FALSE
                ELSE new_y >= 0 => g.grid[new_y + 1][new_x + 1] = 0

\* TETROMINOES.index(piece), from 0; -1 where index raises ValueError
IndexOf(piece) ==
    IF \E k \in 1..Len(TETROMINOES) : TETROMINOES[k] = piece
    THEN (CHOOSE k \in 1..Len(TETROMINOES) :
             /\ TETROMINOES[k] = piece
             /\ \A l \in 1..(k - 1) : TETROMINOES[l] /= piece) - 1
    ELSE -1

\* spawn_new_piece, with the piece random.randint draws for next_piece
spawn_new_piece(g, drawn) ==
    LET s == [g EXCEPT !.current_piece = g.next_piece,
                       !.next_piece = drawn,
                       !.current_x = (g.grid_width \div 2) - 1,
                       !.current_y = 0,
                       !.spawned = @ + 1]
    IN  IF ~can_place(s, s.current_piece, s.current_x, s.current_y)
        THEN [s EXCEPT !.game_over = TRUE, !.is_running = FALSE]
        ELSE s

\* `del self.grid[i]` and `self.grid.insert(0, [0, ...])`, i counted from 0
DeleteRow(grid, i, width) ==
    << [c \in 1..width |-> 0] >> \o SubSeq(grid, 1, i) \o SubSeq(grid, i + 2, Len(grid))

\* lines_to_clear: the full rows, from the bottom one up
RECURSIVE FullRowsFrom(_, _)
FullRowsFrom(grid, i) ==
    IF i < 0 THEN <<>>
    ELSE (IF \A c \in 1..Len(grid[i + 1]) : grid[i + 1][c] /= 0 THEN <<i>> ELSE <<>>)
            \o FullRowsFrom(grid, i - 1)

\* for i in lines_to_clear: the rows are removed one after the other, in the
\* order they were found
RECURSIVE DeleteRows(_, _, _)
DeleteRows(grid, rows, width) ==
    IF rows = <<>> THEN grid
    ELSE DeleteRows(DeleteRow(grid, Head(rows), width), Tail(rows), width)

\* clear_lines
clear_lines(g) ==
    LET lines_to_clear == FullRowsFrom(g.grid, g.grid_height - 1)
    IN  [g EXCEPT !.grid = DeleteRows(g.grid, lines_to_clear, g.grid_width),
                  !.lines_to_clear = lines_to_clear,
                  !.lines_cleared = @ + Len(lines_to_clear),
                  !.score = @ + Len(lines_to_clear) * g.score_per_line]

\* place_piece, with the piece drawn for next_piece; the ValueError of index
\* leaves the game as it is
place_piece(g, drawn) ==
    LET piece == g.current_piece
        color_index == IndexOf(piece) % Len(TETRIS_COLORS)
        written ==
            [r \in 1..Len(g.grid) |-> [c \in 1..Len(g.grid[r]) |->
                LET i == (r - 1) - g.current_y
                    j == (c - 1) - g.current_x
                IN  IF /\ i \in 0..(Len(piece) - 1)
                       /\ j \in 0..(Len(piece[1]) - 1)
                       /\ piece[i + 1][j + 1] /= 0
                    THEN color_index + 1
                    ELSE g.grid[r][c]]]
    IN  IF IndexOf(piece) = -1
        THEN [g EXCEPT !.raised = "ValueError"]
        ELSE spawn_new_piece(clear_lines([g EXCEPT !.grid = written]), drawn)

\* TetrisGame.__init__, up to the first spawn_new_piece
NewTetris(first, drawn) ==
    spawn_new_piece(
        [pc |-> "playing",
         grid_width |-> TetrisConfig.gridWidth,
         grid_height |-> TetrisConfig.gridHeight,
         score_per_line |-> TetrisConfig.scorePerLine,
         grid |-> [r \in 1..TetrisConfig.gridHeight |->
                      [c \in 1..TetrisConfig.gridWidth |-> 0]],
         current_piece |-> <<>>, next_piece |-> first,
         current_x |-> 0, current_y |-> 0,
         score |-> 0, lines_cleared |-> 0, game_over |-> FALSE, is_running |-> TRUE,
         raised |-> None, spawned |-> 0, lines_to_clear |-> <<>>],
        drawn)

InitTetris ==
    /\ StoreIdle
    /\ LimiterIdle
    /\ foodReq = NoFood /\ pongReq = NoPong /\ genReq = NoGen
    /\ scoreCall = NoScoreCall /\ subReq = NoSub
    /\ mineReq = NoMines /\ choiceReq = NoChoice /\ sweeper = NoSweeper
    /\ routed = NoRouted
    /\ \E first \in Pieces, drawn \in Pieces : tetris = NewTetris(first, drawn)

\* drop_piece, on the drop timer
drop_piece ==
    /\ tetris.is_running /\ ~tetris.game_over
    /\ \E drawn \in Pieces :
          IF can_place(tetris, tetris.current_piece, tetris.current_x, tetris.current_y + 1)
          THEN tetris' = [tetris EXCEPT !.current_y = @ + 1]
          ELSE /\ tetris.spawned < MaxPieces
               /\ tetris' = place_piece(tetris, drawn)
    /\ UNCHANGED << storeVars, limiterVars, genVars, submitVars, mineReq, choiceReq,
                    sweeper, routed >>

\* keyPressEvent: left, right, down, and the keys that rotate
keyPressEvent ==
    /\ tetris.is_running /\ ~tetris.game_over
    /\ \E key \in {"Left", "Right", "Down", "Up"} :
          LET piece == tetris.current_piece
              x == tetris.current_x
              y == tetris.current_y
          IN  tetris' =
                 CASE key = "Left" ->
                        IF can_place(tetris, piece, x - 1, y)
                        THEN [tetris EXCEPT !.current_x = x - 1] ELSE tetris
                   [] key = "Right" ->
                        IF can_place(tetris, piece, x + 1, y)
                        THEN [tetris EXCEPT !.current_x = x + 1] ELSE tetris
                   [] key = "Down" ->
                        IF can_place(tetris, piece, x, y + 1)
                        THEN [tetris EXCEPT !.current_y = y + 1] ELSE tetris
                   [] key = "Up" ->
                        IF can_place(tetris, rotate_piece(piece), x, y)
                        THEN [tetris EXCEPT !.current_piece = rotate_piece(piece)]
                        ELSE tetris
    /\ UNCHANGED << storeVars, limiterVars, genVars, submitVars, mineReq, choiceReq,
                    sweeper, routed >>

NextTetris == drop_piece \/ keyPressEvent

SpecTetris == InitTetris /\ [][NextTetris]_vars

(***************************************************************************)
(* Properties of TetrisGame                                                *)
(***************************************************************************)
\* C28: after every place_piece no row of the grid is completely filled, the
\* grid still has grid_height rows of grid_width cells, and lines_cleared and
\* score grow by the number of rows removed (score by score_per_line for
\* each), also when two or more rows are full at once.
C28_LineClearing ==
    [][tetris'.spawned > tetris.spawned =>
          /\ \A r \in 1..Len(tetris'.grid) :
                \E c \in 1..Len(tetris'.grid[r]) : tetris'.grid[r][c] = 0
          /\ Len(tetris'.grid) = tetris.grid_height
          /\ \A r \in 1..Len(tetris'.grid) : Len(tetris'.grid[r]) = tetris.grid_width
          /\ tetris'.lines_cleared - tetris.lines_cleared = Len(tetris'.lines_to_clear)
          /\ tetris'.score - tetris.score =
                Len(tetris'.lines_to_clear) * tetris.score_per_line]_vars

\* C29: in every reachable state, also after rotations, the colour index of
\* current_piece is defined (the piece is found in TETROMINOES), so that a
\* piece that can drop no further is written into the grid without raising.
C29_PiecesAlwaysLock ==
    /\ IndexOf(tetris.current_piece) /= -1
    /\ tetris.raised = None

(***************************************************************************)
(* games_minesweeper.py: MinesweeperGame.  The grid of cell dicts is kept  *)
(* as the sets of the cells (x, y) that hold a mine, are revealed, are     *)
(* flagged; adjacent_mines is computed from the mines.                     *)
(***************************************************************************)
\* LEVEL_CONFIG['MINESWEEPER'][level], with the 8 x 8 grid of 10 mines scaled
\* down
SweeperConfig == [gridSize |-> 3, mines |-> 2]

\* flags standing at a time, in the games tried
MaxFlags == 1

SweeperCells(g) == (0..(g.grid_size - 1)) \X (0..(g.grid_size - 1))

\* calculate_adjacent_mines, for the cell (x, y)
adjacent_mines(g, x, y) ==
    Cardinality({ cell \in g.mine :
                     /\ cell /= <<x, y>>
                     /\ cell[1] - x \in -1..1
                     /\ cell[2] - y \in -1..1 })

\* the neighbours in the order of `for dy in [-1, 0, 1]: for dx in [-1, 0, 1]`
Around ==
    << <<-1, -1>>, <<0, -1>>, <<1, -1>>, <<-1, 0>>, <<1, 0>>, <<-1, 1>>, <<0, 1>>,
       <<1, 1>> >>

\* check_win
check_win(g) ==
    IF Cardinality(SweeperCells(g) \ g.revealed) = g.num_mines
    THEN [g EXCEPT !.won = TRUE, !.game_over = TRUE, !.is_running = FALSE,
                   !.score = @ + 100]
    ELSE g

\* reveal_cell(x, y); RevealAround is its loop over the neighbours, from the
\* k-th on
RECURSIVE reveal_cell(_, _, _)
RECURSIVE RevealAround(_, _, _, _)
reveal_cell(g, x, y) ==
    IF <<x, y>> \notin SweeperCells(g) THEN g
    ELSE IF <<x, y>> \in g.revealed \/ <<x, y>> \in g.flagged THEN g
    ELSE LET shown == [g EXCEPT !.revealed = @ \cup {<<x, y>>},
                                !.revealed_count = @ + 1]
         IN  IF <<x, y>> \in g.mine
             THEN check_win([shown EXCEPT !.game_over = TRUE, !.is_running = FALSE,
                                          !.revealed = @ \cup g.mine])
             ELSE LET scored == [shown EXCEPT !.score = @ + 5]
                  IN  check_win(IF adjacent_mines(g, x, y) = 0
                                THEN RevealAround(scored, x, y, 1)
                                ELSE scored)

RevealAround(g, x, y, k) ==
    IF k > Len(Around) THEN g
    ELSE LET nx == x + Around[k][1]
             ny == y + Around[k][2]
         IN  RevealAround(IF <<nx, ny>> \in SweeperCells(g) /\ <<nx, ny>> \notin g.revealed
                          THEN reveal_cell(g, nx, ny)
                          ELSE g,
                          x, y, k + 1)

\* toggle_flag(x, y)
toggle_flag(g, x, y) ==
    IF <<x, y>> \notin SweeperCells(g) THEN g
    ELSE IF <<x, y>> \in g.revealed THEN g
    ELSE IF <<x, y>> \in g.flagged
         THEN [g EXCEPT !.flagged = @ \ {<<x, y>>}, !.flagged_count = @ - 1]
         ELSE [g EXCEPT !.flagged = @ \cup {<<x, y>>}, !.flagged_count = @ + 1]

\* MinesweeperGame.__init__: place_mines has put num_mines mines on distinct
\* cells
InitSweeper ==
    /\ StoreIdle
    /\ LimiterIdle
    /\ foodReq = NoFood /\ pongReq = NoPong /\ genReq = NoGen
    /\ scoreCall = NoScoreCall /\ subReq = NoSub
    /\ mineReq = NoMines /\ choiceReq = NoChoice /\ tetris = NoTetris
    /\ routed = NoRouted
    /\ \E laid \in SUBSET ((0..(SweeperConfig.gridSize - 1)) \X (0..(SweeperConfig.gridSize - 1))) :
          /\ Cardinality(laid) = SweeperConfig.mines
          /\ sweeper = [pc |-> "playing", grid_size |-> SweeperConfig.gridSize,
                        num_mines |-> SweeperConfig.mines, mine |-> laid,
                        revealed |-> {}, flagged |-> {}, game_over |-> FALSE,
                        won |-> FALSE, is_running |-> TRUE, revealed_count |-> 0,
                        flagged_count |-> 0, score |-> 0]

\* mousePressEvent with the left button on the cell (x, y)
LeftClick ==
    /\ sweeper.pc = "playing"
    /\ ~sweeper.game_over
    /\ \E cell \in SweeperCells(sweeper) :
          sweeper' = reveal_cell(sweeper, cell[1], cell[2])
    /\ UNCHANGED << storeVars, limiterVars, genVars, submitVars, mineReq, choiceReq,
                    tetris, routed >>

\* mousePressEvent with the right button on the cell (x, y)
RightClick ==
    /\ sweeper.pc = "playing"
    /\ ~sweeper.game_over
    /\ \E cell \in SweeperCells(sweeper) :
          /\ cell \in sweeper.flagged \/ sweeper.flagged_count < MaxFlags
          /\ sweeper' = toggle_flag(sweeper, cell[1], cell[2])
    /\ UNCHANGED << storeVars, limiterVars, genVars, submitVars, mineReq, choiceReq,
                    tetris, routed >>

NextSweeper == LeftClick \/ RightClick

SpecSweeper == InitSweeper /\ [][NextSweeper]_vars

(***************************************************************************)
(* Properties of MinesweeperGame                                           *)
(***************************************************************************)
\* the cells without a mine that are revealed
SafeRevealed == sweeper.revealed \ sweeper.mine

\* C30: in every reachable state won is true only if no mine was revealed and
\* every cell without a mine is revealed; a game that ended by revealing a
\* mine is never marked as won; and the 100-point win bonus is in the score at
\* most once (the score is otherwise 5 for every revealed cell without a
\* mine).
C30_WinCondition ==
    /\ sweeper.won =>
          /\ sweeper.revealed \cap sweeper.mine = {}
          /\ SweeperCells(sweeper) \ sweeper.mine \subseteq sweeper.revealed
    /\ sweeper.revealed \cap sweeper.mine /= {} => ~sweeper.won
    /\ sweeper.score <= 5 * Cardinality(SafeRevealed) + 100

====
